---------------------------- MODULE Spec2Model ----------------------------
(***************************************************************************)
(* A model of market_feed: the FeedManager (manager.py), the adapter       *)
(* contract (base.py) and the parts of the Deribit and Bloomberg adapters  *)
(* that the manager drives.                                                *)
(*                                                                         *)
(* Strings that the code takes apart are modelled structurally: a string   *)
(* is the sequence of its '-'-separated parts and each part is the         *)
(* sequence of its '.'-separated atoms, so "BTC_USDC-PERPETUAL" is         *)
(* << <<"BTC_USDC">>, <<"PERPETUAL">> >> and "ticker.SPY.100ms" is         *)
(* << <<"ticker", "SPY", "100ms">> >>.  split('-'), the '-' and '.' tests  *)
(* and the f-string wrappers are then computed, not assumed.               *)
(*                                                                         *)
(* A Python None / missing key is the empty sequence <<>> and a present    *)
(* value v is <<v>>.  Dict objects that are shared by reference (ticker    *)
(* records, instrument records, TabConfigs) live in heaps keyed by object  *)
(* identity; maps and lists hold identities.                               *)
(***************************************************************************)
EXTENDS Integers, Sequences, FiniteSets, TLC

VARIABLES
    \* ---- FeedManager fields (manager.py:13-31)
    market_config,        \* the list object _market_config: Seq of TabConfig identities
    cfg_obj,              \* TabConfig identity -> TabConfig dict
    adapters,             \* keys of self.adapters
    tickers,              \* _tickers: name -> ticker-record identity
    tk_obj,               \* ticker-record identity -> ticker dict
    index_prices,         \* _index_prices: name -> price
    instruments_by_tab,   \* _instruments_by_tab: tab -> Seq of instrument identities
    inst_obj,             \* instrument identity -> instrument dict
    instrument_sets,      \* _instrument_sets: tab -> set of names
    lock,                 \* _lock: "free" or the thread holding it
    \* ---- threads
    ctor,                 \* the constructor: [pc, i, called, error]
    worker,               \* thread -> position inside ingest_ticker
    reader,               \* the thread inside get_snapshot
    snaps,                \* MarketSnapshot objects held by consumers
    plan,                 \* outcome of the latest get_subscription_map call
    \* ---- adapters
    methods,              \* attribute names the registered adapter objects answer
    exact_map,            \* DeribitAdapter.exact_map
    d_ws,                 \* DeribitAdapter.ws / ws.sock: "none", "connecting", "open", "closed"
    d_connected,          \* DeribitAdapter.connected
    b_session,            \* BloombergAdapter.session: "none", "created", "started"
    b_connected,          \* BloombergAdapter.connected
    b_active,             \* BloombergAdapter.active_subscriptions
    wire,                 \* requests put on a transport by the latest planner call
    \* ---- environment: what the vendors answer during bootstrap
    rest_chain,           \* tab -> the list the adapter's chain fetch returns
    rest_price,           \* name -> price of the adapter's last-price fetch
    rest_fail,            \* tab -> how the chain fetch ends: "ok", "refused", "status", "parse"
    \* ---- history
    arrived,              \* name -> raw message of the latest call that took the mutex
    \* ---- adapter session workers (deribit.py:47-53,127-154; bloomberg.py:90-97,301-314)
    d_stop,               \* DeribitAdapter._stop_event is set
    d_thr,                \* threads spawned by DeribitAdapter.start: Seq of [pc, sock, auth]
    d_cur,                \* the thread whose WebSocketApp is DeribitAdapter.ws (0: None)
    b_stop,               \* BloombergAdapter._stop_event is set
    b_thr,                \* threads spawned by BloombergAdapter.start: Seq of [pc, sess]
    b_cur,                \* the thread whose Session is BloombergAdapter.session (0: None)
    notified,             \* source -> calls of FeedManager.on_adapter_reconnect
    forwarded,            \* source -> vendor name -> times handed to the current transport
    \* ---- calls in progress
    trip,                 \* a translation there and back: [pc, name, vendor, back]
    expiries,             \* what the latest get_expiries_for call returned
    planner               \* the thread inside get_subscription_map: [pc, tab]

vars == << market_config, cfg_obj, adapters, tickers, tk_obj, index_prices,
           instruments_by_tab, inst_obj, instrument_sets, lock,
           ctor, worker, reader, snaps, plan,
           methods, exact_map, d_ws, d_connected, b_session, b_connected,
           b_active, wire, rest_chain, rest_price, rest_fail, arrived,
           d_stop, d_thr, d_cur, b_stop, b_thr, b_cur, notified, forwarded,
           trip, expiries, planner >>

\* the calls in progress that most operations have no part in
host_vars == << trip, expiries, planner >>

\* the session workers, without and with the log of what the transports were handed
worker_vars  == << d_stop, d_thr, d_cur, b_stop, b_thr, b_cur, notified >>
session_vars == << worker_vars, forwarded >>

-----------------------------------------------------------------------------
(* Bounds of the model *)

MaxChain == 2       \* longest list a chain fetch returns
MaxSnaps == 2       \* snapshots a consumer holds at once

-----------------------------------------------------------------------------
(* Python values *)

None == <<>>
Some(v) == <<v>>

\* bool(x) for x None or a number
Truthy(o) == o # None /\ o[1] # 0

\* a or b
PyOr(a, b) == IF Truthy(a) THEN a ELSE b

Range(s) == { s[i] : i \in DOMAIN s }

\* d.get(k, dflt)
Get(d, k, dflt) == IF k \in DOMAIN d THEN d[k] ELSE dflt

\* d[k] = v
Put(d, k, v) == [x \in (DOMAIN d) \cup {k} |-> IF x = k THEN v ELSE d[x]]

\* the dict d without key k
Drop(d, k) == [x \in (DOMAIN d) \ {k} |-> d[x]]

EmptyDict == [x \in {} |-> 0]

-----------------------------------------------------------------------------
(* Strings *)

\* a string with neither '-' nor '.'
Atom(a) == << <<a>> >>

\* "x-y": the parts of x followed by the parts of y
Dash(x, y) == x \o y

\* nm.split('-')
SplitDash(nm) == nm

\* '-' in nm
HasDash(nm) == Len(nm) > 1

\* '.' in nm
HasDot(nm) == \E i \in DOMAIN nm : Len(nm[i]) > 1

\* the atoms of the model that contain a given substring
AtomContains(a, sub) ==
    CASE sub = "PERPETUAL" -> a \in {"PERPETUAL"}
      [] sub = "USDC"      -> a \in {"USDC", "BTC_USDC", "ETH_USDC", "SPY_USDC"}
      [] OTHER             -> a = sub

\* sub in nm, for a substring without '-' or '.'
InStr(sub, nm) ==
    \E i \in DOMAIN nm : \E j \in DOMAIN nm[i] : AtomContains(nm[i][j], sub)

\* f"ticker.{t}.100ms"
TickerChannel(t) ==
    IF Len(t) = 1
    THEN << <<"ticker">> \o t[1] \o <<"100ms">> >>
    ELSE << <<"ticker">> \o t[1] >>
         \o SubSeq(t, 2, Len(t) - 1)
         \o << t[Len(t)] \o <<"100ms">> >>

\* float(part): the number a strike part denotes, None when float() raises.
\* "100" and "100.0" are different strings and the same number.
StrikeValue(part) ==
    CASE part = <<"90">>        -> Some(90)
      [] part = <<"95">>        -> Some(95)
      [] part = <<"100">>       -> Some(100)
      [] part = <<"100", "0">>  -> Some(100)
      [] part = <<"105">>       -> Some(105)
      [] part = <<"110">>       -> Some(110)
      [] OTHER                  -> None

-----------------------------------------------------------------------------
(* Configuration: the TabConfigs a market_config.json may hold *)

TabBTCUSD == [tab_name |-> "BTC-USD", base_symbol |-> "BTC",
              settlement |-> "usd", source |-> Some("deribit")]
TabBTC    == [tab_name |-> "BTC", base_symbol |-> "BTC",
              settlement |-> "coin", source |-> None]
TabUS     == [tab_name |-> "US", base_symbol |-> "SPY",
              settlement |-> "usd", source |-> Some("Bloomberg")]
TabBIN    == [tab_name |-> "BIN", base_symbol |-> "ETH",
              settlement |-> "usd", source |-> Some("binance")]

TabNames == {"BTC-USD", "BTC", "US", "BIN"}

\* str.lower() on the source keys of the model
Lower(s) ==
    CASE s = "Bloomberg" -> "bloomberg"
      [] s = "Deribit"   -> "deribit"
      [] OTHER           -> s

\* cfg.get('source', 'deribit').lower()
SourceOf(cfg) == Lower(IF cfg.source = None THEN "deribit" ELSE cfg.source[1])

\* the TabConfig dicts of the list _market_config, in order
Configs == [i \in DOMAIN market_config |-> cfg_obj[market_config[i]]]

-----------------------------------------------------------------------------
(* Adapter operations that do not touch a transport *)

\* DeribitAdapter.get_reference_tickers
DeribitReferenceTickers(cfg) ==
    IF cfg.settlement = "usd"
    THEN << Atom(cfg.base_symbol \o "_USDC"),
            Dash(Atom(cfg.base_symbol \o "_USDC"), Atom("PERPETUAL")) >>
    ELSE << Dash(Atom(cfg.base_symbol), Atom("PERPETUAL")),
            Atom(cfg.base_symbol \o "_USDC") >>

\* BloombergAdapter.get_reference_tickers
BloombergReferenceTickers(cfg) == << Atom(cfg.base_symbol) >>

\* adapter.get_reference_tickers(cfg) for the adapter registered under src
get_reference_tickers(src, cfg) ==
    IF src = "bloomberg" THEN BloombergReferenceTickers(cfg)
                         ELSE DeribitReferenceTickers(cfg)

\* the attributes both adapter classes define
AdapterClassMethods ==
    {"start", "stop", "get_option_chain", "get_latest_price", "subscribe",
     "get_reference_tickers"}

\* the adapter's chain fetch for tab. DeribitAdapter.get_option_chain
\* (deribit.py:55-84) returns [] when the request fails, the status is not
\* 200 or reading the answer raises. BloombergAdapter.get_option_chain
\* (bloomberg.py:140-183) returns [] when the session or the service cannot
\* be opened and when the answer holds no chain; an error raised while the
\* answer is read passes its try/finally and leaves the fetch
ChainFetch(src, tab) ==
    IF rest_fail[tab] = "ok" THEN [raised |-> FALSE, list |-> rest_chain[tab]]
    ELSE IF src = "bloomberg" /\ rest_fail[tab] = "parse"
    THEN [raised |-> TRUE, list |-> <<>>]
    ELSE [raised |-> FALSE, list |-> <<>>]

\* adapter.get_latest_price(t): the adapter hands back what the vendor
\* answered, 0.0 when the fetch failed
get_latest_price(t) == Get(rest_price, t, 0)

-----------------------------------------------------------------------------
(* FeedManager.__init__ *)

\* _init_adapters: one adapter per source key that a TabConfig asks for and
\* that the manager knows how to build
InitAdapters(cfgs) ==
    { SourceOf(cfgs[i]) : i \in DOMAIN cfgs } \cap {"deribit", "bloomberg"}

\* lines 13-31: empty maps, one empty list and set per tab, the adapters
CtorInit ==
    /\ ctor.pc = "new"
    /\ tickers' = EmptyDict
    /\ index_prices' = EmptyDict
    /\ instruments_by_tab' = [t \in { Configs[i].tab_name : i \in DOMAIN Configs } |-> <<>>]
    /\ instrument_sets' = [t \in { Configs[i].tab_name : i \in DOMAIN Configs } |-> {}]
    /\ adapters' = InitAdapters(Configs)
    /\ ctor' = [ctor EXCEPT !.pc = "instruments", !.i = 1]
    /\ UNCHANGED << market_config, cfg_obj, tk_obj, inst_obj, lock, worker, reader,
                    snaps, plan, methods, exact_map, d_ws, d_connected, b_session,
                    b_connected, b_active, wire, rest_chain, rest_price, rest_fail, host_vars, session_vars, arrived >>

\* a variant of MergeKept without the membership test of line 177
MergeAll(instruments, seen) == instruments

\* lines 175-180 for the list `instruments`: the records kept, given the names
\* already in the tab's set
RECURSIVE MergeKept(_, _)
MergeKept(instruments, seen) ==
    IF instruments = <<>> THEN <<>>
    ELSE LET inst == Head(instruments)
             nm   == inst.instrument_name
         IN  IF nm \notin seen
             THEN <<inst>> \o MergeKept(Tail(instruments), seen \cup {nm})
             ELSE MergeKept(Tail(instruments), seen)

\* one iteration of the loop of _bootstrap_instruments (lines 169-180)
BootstrapInstrumentsStep ==
    /\ ctor.pc = "instruments"
    /\ ctor.i <= Len(market_config)
    /\ LET cfg  == Configs[ctor.i]
           tab  == cfg.tab_name
       IN  IF SourceOf(cfg) \notin adapters
           THEN /\ ctor' = [ctor EXCEPT !.i = @ + 1]
                /\ UNCHANGED << instruments_by_tab, inst_obj, instrument_sets >>
           ELSE IF "get_instruments" \notin methods
           THEN \* AttributeError leaves __init__
                /\ ctor' = [ctor EXCEPT !.pc = "raised",
                                        !.called = Append(@, <<tab, "get_instruments">>)]
                /\ UNCHANGED << instruments_by_tab, inst_obj, instrument_sets >>
           ELSE IF ChainFetch(SourceOf(cfg), tab).raised
           THEN \* the fetch's exception leaves __init__
                /\ ctor' = [ctor EXCEPT !.pc = "raised",
                                        !.called = Append(@, <<tab, "get_instruments">>)]
                /\ UNCHANGED << instruments_by_tab, inst_obj, instrument_sets >>
           ELSE LET kept == MergeKept(ChainFetch(SourceOf(cfg), tab).list,
                                      instrument_sets[tab])
                    base == Cardinality(DOMAIN inst_obj)
                    ids  == [k \in 1..Len(kept) |-> base + k]
                IN  /\ inst_obj' = [o \in (DOMAIN inst_obj) \cup Range(ids) |->
                                       IF o \in DOMAIN inst_obj THEN inst_obj[o]
                                       ELSE kept[o - base]]
                    /\ instruments_by_tab' =
                           [instruments_by_tab EXCEPT ![tab] = @ \o ids]
                    /\ instrument_sets' =
                           [instrument_sets EXCEPT ![tab] =
                               @ \cup { kept[k].instrument_name : k \in 1..Len(kept) }]
                    /\ ctor' = [ctor EXCEPT !.i = @ + 1,
                                            !.called = Append(@, <<tab, "get_instruments">>)]
    /\ UNCHANGED << market_config, cfg_obj, adapters, tickers, tk_obj, index_prices,
                    lock, worker, reader, snaps, plan, methods, exact_map, d_ws,
                    d_connected, b_session, b_connected, b_active, wire, rest_chain,
                    rest_price, rest_fail, host_vars, session_vars, arrived >>

\* the loop of _bootstrap_instruments is over
BootstrapInstrumentsDone ==
    /\ ctor.pc = "instruments"
    /\ ctor.i > Len(market_config)
    /\ ctor' = [ctor EXCEPT !.pc = "prices", !.i = 1]
    /\ UNCHANGED << market_config, cfg_obj, adapters, tickers, tk_obj, index_prices,
                    instruments_by_tab, inst_obj, instrument_sets, lock, worker,
                    reader, snaps, plan, methods, exact_map, d_ws, d_connected,
                    b_session, b_connected, b_active, wire, rest_chain, rest_price, rest_fail, host_vars, session_vars,
                    arrived >>

\* lines 128-132 for the reference list `ts`: the index prices afterwards
RECURSIVE StorePrices(_, _)
StorePrices(ip, ts) ==
    IF ts = <<>> THEN ip
    ELSE LET t  == Head(ts)
             px == get_latest_price(t)
         IN  StorePrices(IF px > 0 THEN Put(ip, t, px) ELSE ip, Tail(ts))

\* one iteration of the loop of _bootstrap_prices (lines 120-132)
BootstrapPricesStep ==
    /\ ctor.pc = "prices"
    /\ ctor.i <= Len(market_config)
    /\ LET cfg == Configs[ctor.i]
           src == SourceOf(cfg)
       IN  index_prices' =
               IF src \notin adapters THEN index_prices
               ELSE StorePrices(index_prices, get_reference_tickers(src, cfg))
    /\ ctor' = [ctor EXCEPT !.i = @ + 1]
    /\ UNCHANGED << market_config, cfg_obj, adapters, tickers, tk_obj,
                    instruments_by_tab, inst_obj, instrument_sets, lock, worker,
                    reader, snaps, plan, methods, exact_map, d_ws, d_connected,
                    b_session, b_connected, b_active, wire, rest_chain, rest_price, rest_fail, host_vars, session_vars,
                    arrived >>

\* __init__ returns
CtorReturn ==
    /\ ctor.pc = "prices"
    /\ ctor.i > Len(market_config)
    /\ ctor' = [ctor EXCEPT !.pc = "done"]
    /\ UNCHANGED << market_config, cfg_obj, adapters, tickers, tk_obj, index_prices,
                    instruments_by_tab, inst_obj, instrument_sets, lock, worker,
                    reader, snaps, plan, methods, exact_map, d_ws, d_connected,
                    b_session, b_connected, b_active, wire, rest_chain, rest_price, rest_fail, host_vars, session_vars,
                    arrived >>

Constructor ==
    \/ CtorInit
    \/ BootstrapInstrumentsStep
    \/ BootstrapInstrumentsDone
    \/ BootstrapPricesStep
    \/ CtorReturn

\* the host holds a manager: __init__ has returned
Constructed == ctor.pc = "done"

-----------------------------------------------------------------------------
(* The manager mutex and the ticker-record heap *)

\* a variant of CanAcquire for a manager without mutual exclusion
NoMutex(th) == TRUE

\* `with self._lock:` is entered only while no thread holds the mutex
CanAcquire(th) == lock = "free"

\* the ticker records some map still refers to
LiveTickers(tk, rd, sn) ==
    Range(tk) \cup Range(rd.tickers)
    \cup UNION { Range(sn[k][1].tickers) : k \in { j \in DOMAIN sn : sn[j] # None } }

\* the heap without the records nothing refers to any more
Collect(h, tk, rd, sn) == [o \in (DOMAIN h) \cap LiveTickers(tk, rd, sn) |-> h[o]]

\* the identity of a newly built dict
NewId(h) == CHOOSE o \in 1..(Cardinality(DOMAIN h) + 1) : o \notin DOMAIN h

-----------------------------------------------------------------------------
(* FeedManager.ingest_ticker (manager.py:182-198) *)

\* lines 184-193: the normalized view of raw_data
Normalize(raw) ==
    [instrument_name |-> raw.instrument_name,
     best_bid_price  |-> raw.best_bid_price,
     best_bid_amount |-> raw.best_bid_amount,
     best_ask_price  |-> raw.best_ask_price,
     best_ask_amount |-> raw.best_ask_amount,
     last_price      |-> raw.last_price,
     stats           |-> IF raw.stats = None THEN Some("{}") ELSE raw.stats,
     ts              |-> raw.timestamp]

\* line 196: the name is taken for a reference
LooksLikeReference(nm) == InStr("PERPETUAL", nm) \/ InStr("USDC", nm)

\* line 197: index_price or last_price or 0
IngestPx(raw) == PyOr(PyOr(raw.index_price, raw.last_price), Some(0))[1]

\* a variant of WriteTicker that keeps the record a name already has
WriteTickerKeepFirst(tk, nm, o) == IF nm \in DOMAIN tk THEN tk ELSE Put(tk, nm, o)

\* line 195: self._tickers[nm] = norm
WriteTicker(tk, nm, o) == Put(tk, nm, o)

\* a variant of WriteIndex without the sign test of line 198
WriteIndexUnchecked(ip, nm, raw) ==
    IF LooksLikeReference(nm) THEN Put(ip, nm, IngestPx(raw)) ELSE ip

\* lines 196-198: the index prices after the message
WriteIndex(ip, nm, raw) ==
    IF LooksLikeReference(nm)
    THEN LET px == IngestPx(raw)
         IN  IF px > 0 THEN Put(ip, nm, px) ELSE ip
    ELSE ip

IdleWorker == [pc |-> "idle", raw |-> None, norm |-> None]

\* lines 183-193: the call arrives and builds norm, not yet holding the mutex
IngestCall(w, raw) ==
    /\ Constructed
    /\ worker[w].pc = "idle"
    /\ worker' = [worker EXCEPT ![w] = [pc |-> "norm", raw |-> Some(raw),
                                        norm |-> Some(Normalize(raw))]]
    /\ UNCHANGED << market_config, cfg_obj, adapters, tickers, tk_obj, index_prices,
                    instruments_by_tab, inst_obj, instrument_sets, lock, ctor,
                    reader, snaps, plan, methods, exact_map, d_ws, d_connected,
                    b_session, b_connected, b_active, wire, rest_chain, rest_price, rest_fail, host_vars, session_vars,
                    arrived >>

\* line 194: the mutex is taken (the history variable arrived is set by the
\* specification, not here)
IngestAcquire(w) ==
    /\ worker[w].pc = "norm"
    /\ CanAcquire(w)
    /\ lock' = w
    /\ worker' = [worker EXCEPT ![w].pc = "locked"]
    /\ UNCHANGED << market_config, cfg_obj, adapters, tickers, tk_obj, index_prices,
                    instruments_by_tab, inst_obj, instrument_sets, ctor,
                    reader, snaps, plan, methods, exact_map, d_ws, d_connected,
                    b_session, b_connected, b_active, wire, rest_chain, rest_price, rest_fail, host_vars, session_vars >>

\* line 195
IngestWriteTicker(w) ==
    /\ worker[w].pc = "locked"
    /\ LET nm == worker[w].raw[1].instrument_name
           o  == NewId(tk_obj)
           tk == WriteTicker(tickers, nm, o)
       IN  /\ tickers' = tk
           /\ tk_obj' = Collect(Put(tk_obj, o, worker[w].norm[1]), tk, reader, snaps)
    /\ worker' = [worker EXCEPT ![w].pc = "wrote"]
    /\ UNCHANGED << market_config, cfg_obj, adapters, index_prices,
                    instruments_by_tab, inst_obj, instrument_sets, lock, ctor,
                    reader, snaps, plan, methods, exact_map, d_ws, d_connected,
                    b_session, b_connected, b_active, wire, rest_chain, rest_price, rest_fail, host_vars, session_vars,
                    arrived >>

\* lines 196-198
IngestWriteIndex(w) ==
    /\ worker[w].pc = "wrote"
    /\ index_prices' = WriteIndex(index_prices, worker[w].raw[1].instrument_name,
                                  worker[w].raw[1])
    /\ worker' = [worker EXCEPT ![w].pc = "written"]
    /\ UNCHANGED << market_config, cfg_obj, adapters, tickers, tk_obj,
                    instruments_by_tab, inst_obj, instrument_sets, lock, ctor,
                    reader, snaps, plan, methods, exact_map, d_ws, d_connected,
                    b_session, b_connected, b_active, wire, rest_chain, rest_price, rest_fail, host_vars, session_vars,
                    arrived >>

\* the with block ends: the mutex is released and the call returns
IngestReturn(w) ==
    /\ worker[w].pc = "written"
    /\ lock' = "free"
    /\ worker' = [worker EXCEPT ![w] = IdleWorker]
    /\ UNCHANGED << market_config, cfg_obj, adapters, tickers, tk_obj, index_prices,
                    instruments_by_tab, inst_obj, instrument_sets, ctor,
                    reader, snaps, plan, methods, exact_map, d_ws, d_connected,
                    b_session, b_connected, b_active, wire, rest_chain, rest_price, rest_fail, host_vars, session_vars,
                    arrived >>

-----------------------------------------------------------------------------
(* FeedManager.get_snapshot (manager.py:146-153) *)

IdleReader == [pc |-> "idle", is_ready |-> FALSE,
               index_prices |-> EmptyDict, tickers |-> EmptyDict]

\* line 147: any(a.connected for a in self.adapters.values())
AnyConnected ==
    \/ "deribit" \in adapters /\ d_connected
    \/ "bloomberg" \in adapters /\ b_connected

\* line 152: {k: v[:] for k, v in self._instruments_by_tab.items()}
CopyLists(ibt) == [t \in DOMAIN ibt |-> ibt[t]]

\* line 147, before the mutex is taken
SnapReady ==
    /\ Constructed
    /\ reader.pc = "idle"
    /\ reader' = [reader EXCEPT !.pc = "ready", !.is_ready = AnyConnected]
    /\ UNCHANGED << market_config, cfg_obj, adapters, tickers, tk_obj, index_prices,
                    instruments_by_tab, inst_obj, instrument_sets, lock, ctor,
                    worker, snaps, plan, methods, exact_map, d_ws, d_connected,
                    b_session, b_connected, b_active, wire, rest_chain, rest_price, rest_fail, host_vars, session_vars,
                    arrived >>

\* line 148
SnapAcquire ==
    /\ reader.pc = "ready"
    /\ CanAcquire("r")
    /\ lock' = "r"
    /\ reader' = [reader EXCEPT !.pc = "locked"]
    /\ UNCHANGED << market_config, cfg_obj, adapters, tickers, tk_obj, index_prices,
                    instruments_by_tab, inst_obj, instrument_sets, ctor,
                    worker, snaps, plan, methods, exact_map, d_ws, d_connected,
                    b_session, b_connected, b_active, wire, rest_chain, rest_price, rest_fail, host_vars, session_vars,
                    arrived >>

\* line 150: self._index_prices.copy()
SnapCopyIndex ==
    /\ reader.pc = "locked"
    /\ reader' = [reader EXCEPT !.pc = "index", !.index_prices = index_prices]
    /\ UNCHANGED << market_config, cfg_obj, adapters, tickers, tk_obj, index_prices,
                    instruments_by_tab, inst_obj, instrument_sets, lock, ctor,
                    worker, snaps, plan, methods, exact_map, d_ws, d_connected,
                    b_session, b_connected, b_active, wire, rest_chain, rest_price, rest_fail, host_vars, session_vars,
                    arrived >>

\* line 151: self._tickers.copy(), a new map holding the same record objects
SnapCopyTickers ==
    /\ reader.pc = "index"
    /\ reader' = [reader EXCEPT !.pc = "tickers", !.tickers = tickers]
    /\ UNCHANGED << market_config, cfg_obj, adapters, tickers, tk_obj, index_prices,
                    instruments_by_tab, inst_obj, instrument_sets, lock, ctor,
                    worker, snaps, plan, methods, exact_map, d_ws, d_connected,
                    b_session, b_connected, b_active, wire, rest_chain, rest_price, rest_fail, host_vars, session_vars,
                    arrived >>

\* the MarketSnapshot of lines 149-153; config is the list object
\* _market_config itself, the per-tab lists are new lists of the same records
MakeSnapshot(rd) ==
    [is_ready           |-> rd.is_ready,
     index_prices       |-> rd.index_prices,
     tickers            |-> rd.tickers,
     config             |-> "_market_config",
     instruments_by_tab |-> CopyLists(instruments_by_tab)]

\* lines 151-153: the snapshot is built, the mutex released, and the caller
\* keeps the snapshot in one of its `keep` slots (or lets go of it)
SnapReturn(keep) ==
    /\ reader.pc = "tickers"
    /\ lock' = "free"
    /\ LET free == { k \in 1..keep : snaps[k] = None }
           sn   == IF free = {} THEN snaps
                   ELSE [snaps EXCEPT ![CHOOSE k \in free : \A j \in free : k <= j] =
                             Some(MakeSnapshot(reader))]
       IN  /\ snaps' = sn
           /\ tk_obj' = Collect(tk_obj, tickers, IdleReader, sn)
    /\ reader' = IdleReader
    /\ UNCHANGED << market_config, cfg_obj, adapters, tickers, index_prices,
                    instruments_by_tab, inst_obj, instrument_sets, ctor,
                    worker, plan, methods, exact_map, d_ws, d_connected,
                    b_session, b_connected, b_active, wire, rest_chain, rest_price, rest_fail, host_vars, session_vars,
                    arrived >>

-----------------------------------------------------------------------------
(* BloombergAdapter: canonical name -> vendor ticker (bloomberg.py:210-299) *)
(* A vendor ticker is the sequence of its space-separated words, each word  *)
(* the sequence of its '.'-separated atoms.                                 *)

\* the symbols of self.index_tickers when feed_instruments.csv is absent
IndexTickers == {"SPX", "NDX", "VIX", "RTY", "HSI", "NKY", "UKX", "CAC", "DAX", "SX5E"}

\* name.startswith(prefix) and name[-1].isdigit() for a prefix of
\* self.future_prefixes, on the atoms of the model
FutureLike(a) == a \in {"ESU6", "NQZ5"}

\* datetime.strptime(d, "%d%b%y").strftime("%m/%d/%y"), None when strptime raises
BbgDate(part) ==
    CASE part = <<"20DEC24">> -> Some("12/20/24")
      [] part = <<"27DEC24">> -> Some("12/27/24")
      [] part = <<"5DEC24">>  -> Some("12/05/24")
      [] part = <<"05DEC24">> -> Some("12/05/24")
      [] part = <<"20FEB26">> -> Some("02/20/26")
      [] OTHER                -> None

\* the string a followed by the string b, neither holding a '-'
Concat(a, b) == SubSeq(a, 1, Len(a) - 1) \o << a[Len(a)] \o b[1] >> \o Tail(b)

\* _to_bbg_option_ticker (lines 283-299)
ToBbgOptionTicker(app_ticker) ==
    LET parts == SplitDash(app_ticker)
    IN  IF Len(parts) < 4 THEN None
        ELSE IF Len(parts) > 4 THEN None      \* the unpacking raises, caught
        ELSE IF BbgDate(parts[2]) = None THEN None
        ELSE Some(<< parts[1], <<"US">>, << BbgDate(parts[2])[1] >>,
                     Concat(parts[4], parts[3]), <<"Equity">> >>)

\* _convert_to_bbg (lines 210-242); self.exact_map is empty without the csv
ConvertToBbg(name) ==
    IF HasDash(name) THEN ToBbgOptionTicker(name)
    ELSE IF HasDot(name)
    THEN Some(<< SubSeq(name[1], 1, Len(name[1]) - 1),
                 << name[1][Len(name[1])] >>, <<"Equity">> >>)
    ELSE IF name[1][1] \in IndexTickers \/ FutureLike(name[1][1])
    THEN Some(<< name[1], <<"Index">> >>)
    ELSE Some(<< name[1], <<"US">>, <<"Equity">> >>)

-----------------------------------------------------------------------------
(* adapter.subscribe *)

\* DeribitAdapter.subscribe lines 114-115: the channels of the request
DeribitChannels(instruments) ==
    [i \in DOMAIN instruments |->
        TickerChannel(Get(exact_map, instruments[i], instruments[i]))]

\* DeribitAdapter.subscribe (lines 111-125): what reaches the websocket
DeribitSubscribe(instruments) ==
    IF d_ws = "open"
    THEN << [adapter |-> "deribit", channels |-> DeribitChannels(instruments),
             cids |-> <<>>] >>
    ELSE <<>>

\* BloombergAdapter.subscribe lines 190-201: the topics added to the
\* SubscriptionList, each with its correlation id, given the active set
RECURSIVE BloombergTopics(_, _)
BloombergTopics(instruments, active) ==
    IF instruments = <<>> THEN <<>>
    ELSE LET app_ticker == Head(instruments)
             bbg_ticker == ConvertToBbg(app_ticker)
         IN  IF bbg_ticker # None /\ bbg_ticker[1] \notin active
             THEN << [topic |-> bbg_ticker[1], cid |-> app_ticker] >>
                  \o BloombergTopics(Tail(instruments), active \cup {bbg_ticker[1]})
             ELSE BloombergTopics(Tail(instruments), active)

\* BloombergAdapter.subscribe (lines 185-206): what reaches the session; a
\* session that is not started raises in session.subscribe, which is swallowed
BloombergSubscribe(instruments) ==
    LET topics == BloombergTopics(instruments, b_active)
    IN  IF b_session = "none" \/ topics = <<>> \/ b_session # "started" THEN <<>>
        ELSE << [adapter |-> "bloomberg",
                 channels |-> [i \in DOMAIN topics |-> topics[i].topic],
                 cids |-> [i \in DOMAIN topics |-> topics[i].cid]] >>

\* active_subscriptions after BloombergAdapter.subscribe
BloombergActiveAfter(instruments) ==
    IF b_session = "none" THEN b_active
    ELSE LET topics == BloombergTopics(instruments, b_active)
         IN  b_active \cup { topics[i].topic : i \in DOMAIN topics }

\* adapter.connected of the adapter registered under src
ConnectedFlag(src) == IF src = "bloomberg" THEN b_connected ELSE d_connected

-----------------------------------------------------------------------------
(* FeedManager.get_subscription_map (manager.py:63-115) *)

\* a variant of SpotOf that takes the price of the last reference ticker
SpotOfLast(ip, refs) == IF refs = <<>> THEN 0 ELSE Get(ip, refs[Len(refs)], 0)

\* lines 77-80: the value of spot when the loop is left
RECURSIVE SpotOf(_, _)
SpotOf(ip, refs) ==
    IF refs = <<>> THEN 0
    ELSE LET s == Get(ip, Head(refs), 0)
         IN  IF s > 0 \/ Tail(refs) = <<>> THEN s ELSE SpotOf(ip, Tail(refs))

\* lines 84-85 and the test lo <= k <= hi of line 101, in exact arithmetic:
\* spot*(1 + pct/100) <= k  iff  spot*(100 + pct) <= 100*k
InWindow(k, spot, min_pct, max_pct) ==
    /\ spot * (100 + min_pct) <= 100 * k
    /\ 100 * k <= spot * (100 + max_pct)

\* a variant of SortAsc that leaves the list in insertion order
NoSort(xs) == xs

\* list.sort() on numbers
RECURSIVE SortAsc(_)
SortAsc(xs) ==
    IF xs = <<>> THEN <<>>
    ELSE LET m == CHOOSE i \in DOMAIN xs : \A j \in DOMAIN xs : xs[i] <= xs[j]
         IN  << xs[m] >> \o SortAsc(SubSeq(xs, 1, m - 1) \o SubSeq(xs, m + 1, Len(xs)))

EmptySlots == [k \in {<<"C">>, <<"P">>} |-> None]

\* lines 94-108 for one instrument name nm; acc = [structure, subs, raised]
PlanOne(acc, nm, dates, spot, min_pct, max_pct) ==
    LET parts == SplitDash(nm)
    IN  IF Len(parts) < 4 THEN acc
        ELSE IF StrikeValue(parts[3]) = None
        THEN [acc EXCEPT !.raised = TRUE]              \* float() raises ValueError
        ELSE
        LET date == parts[2]
            k    == StrikeValue(parts[3])[1]
            kind == parts[4]
        IN  IF date \in dates /\ InWindow(k, spot, min_pct, max_pct)
            THEN LET s0  == acc.structure
                     s1  == IF date \in DOMAIN s0 THEN s0
                            ELSE Put(s0, date, [strikes |-> <<>>, map |-> EmptyDict])
                     e1  == s1[date]
                     e2  == IF k \in DOMAIN e1.map THEN e1
                            ELSE [strikes |-> Append(e1.strikes, k),
                                  map |-> Put(e1.map, k, EmptySlots)]
                     e3  == [e2 EXCEPT !.map = Put(e2.map, k, Put(e2.map[k], kind, Some(nm)))]
                 IN  [acc EXCEPT !.structure = Put(s1, date, e3),
                                 !.subs = Append(acc.subs, TickerChannel(nm))]
            ELSE acc

\* the loop of lines 93-108 over the names of the tab's records
RECURSIVE PlanScan(_, _, _, _, _, _)
PlanScan(names, acc, dates, spot, min_pct, max_pct) ==
    IF names = <<>> \/ acc.raised THEN acc
    ELSE PlanScan(Tail(names), PlanOne(acc, Head(names), dates, spot, min_pct, max_pct),
                  dates, spot, min_pct, max_pct)

\* line 110
SortStrikes(structure) ==
    [d \in DOMAIN structure |-> [structure[d] EXCEPT !.strikes = SortAsc(@)]]

\* line 90
ReferenceChannels(refs) == [i \in DOMAIN refs |-> TickerChannel(refs[i])]

\* what a call returns that leaves before planning: {}
EmptyPlan(tab, dates, min_pct, max_pct, why) ==
    [tab |-> tab, dates |-> dates, min_pct |-> min_pct, max_pct |-> max_pct,
     outcome |-> "returned", why |-> why, spot |-> 0, refs |-> <<>>,
     structure |-> EmptyDict, subs |-> <<>>, subscribed |-> FALSE]

\* what get_subscription_map(tab, dates, min_pct, max_pct) computes and hands
\* to the adapter (lines 64-73 and 76-115).  plan records the call and what
\* it returned, wire what the adapter handed to its transport.
PlanBody(tab, dates, min_pct, max_pct) ==
    \E hits \in { { i \in DOMAIN market_config : Configs[i].tab_name = tab } } :
       IF hits = {}
       THEN /\ plan' = Some(EmptyPlan(tab, dates, min_pct, max_pct, "no tab"))
            /\ UNCHANGED << b_active, wire >>
       ELSE
       \E cfg \in { Configs[CHOOSE i \in hits : \A j \in hits : i <= j] } :
       \E src \in { SourceOf(cfg) } :
       IF src \notin adapters
       THEN /\ plan' = Some(EmptyPlan(tab, dates, min_pct, max_pct, "no adapter"))
            /\ UNCHANGED << b_active, wire >>
       ELSE
       \E refs \in { get_reference_tickers(src, cfg) } :
       \E spot \in { SpotOf(index_prices, refs) } :
       IF spot = 0
       THEN /\ plan' = Some(EmptyPlan(tab, dates, min_pct, max_pct, "no spot"))
            /\ UNCHANGED << b_active, wire >>
       ELSE
       \E ids \in { Get(instruments_by_tab, tab, <<>>) } :
       \E acc \in { PlanScan([i \in DOMAIN ids |-> inst_obj[ids[i]].instrument_name],
                             [structure |-> EmptyDict,
                              subs |-> ReferenceChannels(refs),
                              raised |-> FALSE],
                             dates, spot, min_pct, max_pct) } :
       \E send \in { ~acc.raised /\ ConnectedFlag(src) } :
          /\ plan' = Some(
                 [tab |-> tab, dates |-> dates, min_pct |-> min_pct,
                  max_pct |-> max_pct,
                  outcome |-> IF acc.raised THEN "raised" ELSE "returned",
                  why |-> "planned", spot |-> spot, refs |-> refs,
                  structure |-> IF acc.raised THEN EmptyDict
                                ELSE SortStrikes(acc.structure),
                  subs |-> acc.subs, subscribed |-> send])
          /\ wire' = IF ~send THEN <<>>
                     ELSE IF src = "bloomberg" THEN BloombergSubscribe(acc.subs)
                     ELSE DeribitSubscribe(acc.subs)
          /\ b_active' = IF send /\ src = "bloomberg"
                         THEN BloombergActiveAfter(acc.subs)
                         ELSE b_active

\* the call get_subscription_map(tab, dates, min_pct, max_pct), from entry to
\* return; the body of lines 75-115 runs holding the mutex.
GetSubscriptionMap(tab, dates, min_pct, max_pct) ==
    /\ Constructed
    /\ CanAcquire("p")
    /\ PlanBody(tab, dates, min_pct, max_pct)
    /\ UNCHANGED << market_config, cfg_obj, adapters, tickers, tk_obj, index_prices,
                    instruments_by_tab, inst_obj, instrument_sets, lock, ctor,
                    worker, reader, snaps, methods, exact_map, d_ws, d_connected,
                    b_session, b_connected, rest_chain, rest_price, rest_fail, host_vars, worker_vars, arrived >>

-----------------------------------------------------------------------------
(* The adapters' sessions, as far as the manager observes them *)

\* DeribitAdapter.start / _ws_loop lines 128-138: a WebSocketApp is created
DeribitConnect ==
    /\ Constructed
    /\ "deribit" \in adapters
    /\ d_ws \in {"none", "closed"}
    /\ ~d_connected
    /\ d_ws' = "connecting"
    /\ UNCHANGED << market_config, cfg_obj, adapters, tickers, tk_obj, index_prices,
                    instruments_by_tab, inst_obj, instrument_sets, lock, ctor,
                    worker, reader, snaps, plan, methods, exact_map, d_connected,
                    b_session, b_connected, b_active, wire, rest_chain, rest_price, rest_fail, host_vars, session_vars,
                    arrived >>

\* _on_open (lines 143-154): the socket is connected, connected = True
DeribitOnOpen ==
    /\ d_ws = "connecting"
    /\ d_ws' = "open"
    /\ d_connected' = TRUE
    /\ UNCHANGED << market_config, cfg_obj, adapters, tickers, tk_obj, index_prices,
                    instruments_by_tab, inst_obj, instrument_sets, lock, ctor,
                    worker, reader, snaps, plan, methods, exact_map,
                    b_session, b_connected, b_active, wire, rest_chain, rest_price, rest_fail, host_vars, session_vars,
                    arrived >>

\* the transport drops: ws.sock.connected turns false before on_close runs
DeribitSocketDrop ==
    /\ d_ws = "open"
    /\ d_ws' = "closed"
    /\ UNCHANGED << market_config, cfg_obj, adapters, tickers, tk_obj, index_prices,
                    instruments_by_tab, inst_obj, instrument_sets, lock, ctor,
                    worker, reader, snaps, plan, methods, exact_map, d_connected,
                    b_session, b_connected, b_active, wire, rest_chain, rest_price, rest_fail, host_vars, session_vars,
                    arrived >>

\* on_close (line 136): connected = False
DeribitOnClose ==
    /\ d_ws = "closed"
    /\ d_connected
    /\ d_connected' = FALSE
    /\ UNCHANGED << market_config, cfg_obj, adapters, tickers, tk_obj, index_prices,
                    instruments_by_tab, inst_obj, instrument_sets, lock, ctor,
                    worker, reader, snaps, plan, methods, exact_map, d_ws,
                    b_session, b_connected, b_active, wire, rest_chain, rest_price, rest_fail, host_vars, session_vars,
                    arrived >>

\* BloombergAdapter.start / _run_session lines 302-308: the session is
\* created; session.start() may fail, openService may fail, and otherwise
\* connected = True
BloombergRunSession ==
    /\ Constructed
    /\ "bloomberg" \in adapters
    /\ b_session = "none"
    /\ \E end \in {"refused", "no service", "up"} :
          /\ b_session' = IF end = "refused" THEN "created" ELSE "started"
          /\ b_connected' = (end = "up")
    /\ UNCHANGED << market_config, cfg_obj, adapters, tickers, tk_obj, index_prices,
                    instruments_by_tab, inst_obj, instrument_sets, lock, ctor,
                    worker, reader, snaps, plan, methods, exact_map, d_ws,
                    d_connected, b_active, wire, rest_chain, rest_price, rest_fail, host_vars, session_vars, arrived >>

Sessions ==
    \/ DeribitConnect
    \/ DeribitOnOpen
    \/ DeribitSocketDrop
    \/ DeribitOnClose
    \/ BloombergRunSession

-----------------------------------------------------------------------------
(* Names, records and messages of the model *)

\* "SYM-DDMMMYY-STRIKE-K"
OptionName(sym, date, strike, kind) == << <<sym>>, <<date>>, strike, <<kind>> >>

BTC_USDC      == Atom("BTC_USDC")
BTC_USDC_PERP == Dash(Atom("BTC_USDC"), Atom("PERPETUAL"))
SPY           == Atom("SPY")

\* an instrument dict as an adapter's chain fetch builds it
Instrument(nm) == [instrument_name |-> nm, quote_currency |-> "USD"]

\* a raw_data dict with the given name and prices and no other key
RawMsg(nm, idx, last) ==
    [instrument_name |-> nm, index_price |-> idx, last_price |-> last,
     best_bid_price |-> None, best_bid_amount |-> None,
     best_ask_price |-> None, best_ask_amount |-> None,
     stats |-> None, timestamp |-> None]

\* index_price and last_price each absent, zero, negative or positive
RawAll ==
    { RawMsg(nm, idx, last) :
        nm \in {BTC_USDC_PERP, SPY},
        idx \in {None, Some(0), Some(-1), Some(7)},
        last \in {None, Some(0), Some(-1), Some(5)} }

\* a few messages, two of them for the same reference name
RawFew ==
    { RawMsg(BTC_USDC_PERP, Some(7), Some(5)),
      RawMsg(BTC_USDC_PERP, None, Some(6)),
      RawMsg(SPY, None, Some(5)) }

-----------------------------------------------------------------------------
(* Initial states *)

\* adapters that answer the get_instruments call of manager.py:173
WithGetInstruments == AdapterClassMethods \cup {"get_instruments"}

NewCtor == [pc |-> "new", i |-> 0, called |-> <<>>]

\* the process before FeedManager(...) runs: the config file holds cfgs, the
\* vendors will answer chains and prices
InitStateWith(cfgs, chains, prices, meths, emap, fails) ==
    /\ market_config = [i \in DOMAIN cfgs |-> i]
    /\ cfg_obj = [i \in DOMAIN cfgs |-> cfgs[i]]
    /\ adapters = {}
    /\ tickers = EmptyDict
    /\ tk_obj = EmptyDict
    /\ index_prices = EmptyDict
    /\ instruments_by_tab = EmptyDict
    /\ inst_obj = EmptyDict
    /\ instrument_sets = EmptyDict
    /\ lock = "free"
    /\ ctor = NewCtor
    /\ worker = [w \in {"w1", "w2"} |-> IdleWorker]
    /\ reader = IdleReader
    /\ snaps = [k \in 1..MaxSnaps |-> None]
    /\ plan = None
    /\ methods = meths
    /\ exact_map = emap
    /\ d_ws = "none"
    /\ d_connected = FALSE
    /\ b_session = "none"
    /\ b_connected = FALSE
    /\ b_active = {}
    /\ wire = <<>>
    /\ rest_chain = chains
    /\ rest_price = prices
    /\ rest_fail = fails
    /\ trip = [pc |-> "idle", name |-> <<>>, vendor |-> <<>>, back |-> <<>>]
    /\ expiries = <<>>
    /\ planner = [pc |-> "idle", tab |-> ""]
    /\ arrived = EmptyDict
    /\ d_stop = FALSE
    /\ d_thr = <<>>
    /\ d_cur = 0
    /\ b_stop = FALSE
    /\ b_thr = <<>>
    /\ b_cur = 0
    /\ notified = [s \in {"deribit", "bloomberg"} |-> 0]
    /\ forwarded = [s \in {"deribit", "bloomberg"} |-> EmptyDict]

\* every chain fetch reaches the vendor and gets an answer
AllFetched == [t \in TabNames |-> "ok"]

InitState(cfgs, chains, prices, meths, emap) ==
    InitStateWith(cfgs, chains, prices, meths, emap, AllFetched)

ThreeTabs == << TabBTCUSD, TabUS, TabBIN >>

OneEach ==
    [t \in TabNames |->
        CASE t = "BTC-USD" -> << Instrument(OptionName("BTC_USDC", "20DEC24", <<"100">>, "C")) >>
          [] t = "US"      -> << Instrument(OptionName("SPY", "20DEC24", <<"100">>, "P")) >>
          [] OTHER         -> <<>>]

\* every reference price fetch answers v
AllPrices(v) == [n \in {BTC_USDC, BTC_USDC_PERP, SPY} |-> v]

-----------------------------------------------------------------------------
(* Spec: the constructor, then one adapter worker and one snapshot reader *)

Init ==
    \E v \in {0, -1, 9} :
        InitState(ThreeTabs, OneEach, AllPrices(v), WithGetInstruments, EmptyDict)

Ingest(w, msgs) ==
    \/ \E raw \in msgs : IngestCall(w, raw)
    \/ IngestAcquire(w) /\ UNCHANGED arrived
    \/ IngestWriteTicker(w)
    \/ IngestWriteIndex(w)
    \/ IngestReturn(w)

GetSnapshot(keep) ==
    \/ SnapReady
    \/ SnapAcquire
    \/ SnapCopyIndex
    \/ SnapCopyTickers
    \/ SnapReturn(keep)

Next ==
    \/ Constructor
    \/ Ingest("w1", RawAll)
    \/ GetSnapshot(0)

Spec == Init /\ [][Next]_vars

-----------------------------------------------------------------------------
(* SpecConc: two adapter workers racing on one reference name, and a reader. *)
(* arrived[n] is the last message for n whose call took the mutex.           *)

IngestH(w, msgs) ==
    \/ \E raw \in msgs : IngestCall(w, raw)
    \/ /\ IngestAcquire(w)
       /\ arrived' = Put(arrived, worker[w].raw[1].instrument_name, worker[w].raw[1])
    \/ IngestWriteTicker(w)
    \/ IngestWriteIndex(w)
    \/ IngestReturn(w)

InitConc == InitState(ThreeTabs, OneEach, AllPrices(9), WithGetInstruments, EmptyDict)

NextConc ==
    \/ Constructor
    \/ IngestH("w1", RawFew)
    \/ IngestH("w2", RawFew)
    \/ GetSnapshot(0)

SpecConc == InitConc /\ [][NextConc]_vars

-----------------------------------------------------------------------------
(* Properties of ingest_ticker and get_snapshot *)

\* C2: whenever no call stands between taking the mutex and its write, the
\* tickers map holds, for every name for which a message arrived, exactly the
\* normalized view of the last message that arrived for it (arrival = taking
\* the mutex), and the record stored under n names n.
C2_LatestWriteWins ==
    (\A w \in DOMAIN worker : worker[w].pc # "locked") =>
        /\ DOMAIN tickers = DOMAIN arrived
        /\ \A n \in DOMAIN arrived :
              /\ tk_obj[tickers[n]] = Normalize(arrived[n])
              /\ tk_obj[tickers[n]].instrument_name = n

\* a second message for BTC_USDC-PERPETUAL has replaced the first
C2_Overwritten ==
    /\ lock = "free"
    /\ DOMAIN tickers = {BTC_USDC_PERP}
    /\ tickers[BTC_USDC_PERP] = 2
    /\ arrived[BTC_USDC_PERP] = RawMsg(BTC_USDC_PERP, None, Some(6))
    /\ tk_obj[2].last_price = Some(6)

\* C3: a call writes while it holds the mutex, the ticker before the index
\* price; and the maps a snapshot copies hold, for every message that has
\* arrived, both its ticker and (for a reference with a positive price) its
\* index price, and no streamed index price without its ticker.
C3_NoTornSnapshot ==
    /\ \A w \in DOMAIN worker :
          /\ worker[w].pc \in {"locked", "wrote", "written"} => lock = w
          /\ worker[w].pc \in {"wrote", "written"} =>
                tk_obj[tickers[worker[w].raw[1].instrument_name]] = worker[w].norm[1]
    /\ reader.pc = "tickers" =>
          /\ \A n \in DOMAIN arrived :
                /\ n \in DOMAIN reader.tickers
                /\ tk_obj[reader.tickers[n]] = Normalize(arrived[n])
                /\ (LooksLikeReference(n) /\ IngestPx(arrived[n]) > 0) =>
                       Get(reader.index_prices, n, 0) = IngestPx(arrived[n])
          /\ \A n \in DOMAIN reader.index_prices :
                reader.index_prices[n] # get_latest_price(n) => n \in DOMAIN reader.tickers

\* a snapshot copies the maps after a reference message while another call
\* waits for the mutex
C3_SnapshotWhileWaiting ==
    /\ reader.pc = "tickers"
    /\ BTC_USDC_PERP \in DOMAIN reader.tickers
    /\ Get(reader.index_prices, BTC_USDC_PERP, 0) = 7
    /\ \E w \in DOMAIN worker : worker[w].pc = "norm"

\* a reference name as the claim has it: the naming heuristic, or a name that
\* get_reference_tickers returns for a configured tab with an adapter
ClaimedReference(nm) ==
    \/ LooksLikeReference(nm)
    \/ \E i \in DOMAIN Configs :
          /\ SourceOf(Configs[i]) \in adapters
          /\ nm \in Range(get_reference_tickers(SourceOf(Configs[i]), Configs[i]))

\* index_price, or last_price when index_price is absent (0 when both are)
ClaimedPx(raw) ==
    IF raw.index_price # None THEN raw.index_price[1]
    ELSE IF raw.last_price # None THEN raw.last_price[1] ELSE 0

\* C4: when ingest_ticker has made its writes for a reference message whose
\* price is positive, index_prices[name] is that price.
C4_ReferenceSetsIndex ==
    \A w \in DOMAIN worker :
        LET raw == worker[w].raw[1]
        IN  (worker[w].pc = "written" /\ ClaimedReference(raw.instrument_name)
                /\ ClaimedPx(raw) > 0) =>
            Get(index_prices, raw.instrument_name, 0) = ClaimedPx(raw)

\* C5: every entry of index_prices, in the manager and in the copy a snapshot
\* takes, is strictly positive.
C5_IndexPricesPositive ==
    /\ \A n \in DOMAIN index_prices : index_prices[n] > 0
    /\ \A n \in DOMAIN reader.index_prices : reader.index_prices[n] > 0

\* a reference message with a non-positive price has been ingested for a name
\* that has an index price
C5_NonPositiveIngested ==
    \E w \in DOMAIN worker :
        /\ worker[w].pc = "written"
        /\ LooksLikeReference(worker[w].raw[1].instrument_name)
        /\ IngestPx(worker[w].raw[1]) <= 0
        /\ worker[w].raw[1].instrument_name \in DOMAIN index_prices

-----------------------------------------------------------------------------
(* The consumer of snapshots: what a caller can do to a MarketSnapshot it    *)
(* holds (base.py:5-12), through the maps and lists reachable from it.       *)

\* snapshot.index_prices[n] = -1
ConsumerSetIndex(k) ==
    /\ snaps[k] # None
    /\ \E n \in {BTC_USDC_PERP} :
          snaps' = [snaps EXCEPT ![k] = Some([@[1] EXCEPT !.index_prices = Put(@, n, -1)])]
    /\ UNCHANGED << market_config, cfg_obj, adapters, tickers, tk_obj, index_prices,
                    instruments_by_tab, inst_obj, instrument_sets, lock, ctor,
                    worker, reader, plan, methods, exact_map, d_ws, d_connected,
                    b_session, b_connected, b_active, wire, rest_chain, rest_price, rest_fail, host_vars, session_vars,
                    arrived >>

\* del snapshot.tickers[n]
ConsumerDelTicker(k) ==
    /\ snaps[k] # None
    /\ \E n \in DOMAIN snaps[k][1].tickers :
          LET sn == [snaps EXCEPT ![k] = Some([@[1] EXCEPT !.tickers = Drop(@, n)])]
          IN  /\ snaps' = sn
              /\ tk_obj' = Collect(tk_obj, tickers, reader, sn)
    /\ UNCHANGED << market_config, cfg_obj, adapters, tickers, index_prices,
                    instruments_by_tab, inst_obj, instrument_sets, lock, ctor,
                    worker, reader, plan, methods, exact_map, d_ws, d_connected,
                    b_session, b_connected, b_active, wire, rest_chain, rest_price, rest_fail, host_vars, session_vars,
                    arrived >>

\* snapshot.tickers[n]["last_price"] = -99
ConsumerEditTicker(k) ==
    /\ snaps[k] # None
    /\ \E n \in DOMAIN snaps[k][1].tickers :
          tk_obj' = [tk_obj EXCEPT ![snaps[k][1].tickers[n]].last_price = Some(-99)]
    /\ UNCHANGED << market_config, cfg_obj, adapters, tickers, index_prices,
                    instruments_by_tab, inst_obj, instrument_sets, lock, ctor,
                    worker, reader, snaps, plan, methods, exact_map, d_ws,
                    d_connected, b_session, b_connected, b_active, wire, rest_chain,
                    rest_price, rest_fail, host_vars, session_vars, arrived >>

\* snapshot.instruments_by_tab[t].pop()
ConsumerPopInstrument(k) ==
    /\ snaps[k] # None
    /\ \E t \in DOMAIN snaps[k][1].instruments_by_tab :
          /\ snaps[k][1].instruments_by_tab[t] # <<>>
          /\ snaps' = [snaps EXCEPT ![k] =
                 Some([@[1] EXCEPT !.instruments_by_tab[t] = SubSeq(@, 1, Len(@) - 1)])]
    /\ UNCHANGED << market_config, cfg_obj, adapters, tickers, tk_obj, index_prices,
                    instruments_by_tab, inst_obj, instrument_sets, lock, ctor,
                    worker, reader, plan, methods, exact_map, d_ws, d_connected,
                    b_session, b_connected, b_active, wire, rest_chain, rest_price, rest_fail, host_vars, session_vars,
                    arrived >>

\* snapshot.instruments_by_tab[t][i]["quote_currency"] = "tampered"
ConsumerEditInstrument(k) ==
    /\ snaps[k] # None
    /\ \E t \in DOMAIN snaps[k][1].instruments_by_tab :
          \E i \in DOMAIN snaps[k][1].instruments_by_tab[t] :
             inst_obj' = [inst_obj EXCEPT
                 ![snaps[k][1].instruments_by_tab[t][i]].quote_currency = "tampered"]
    /\ UNCHANGED << market_config, cfg_obj, adapters, tickers, tk_obj, index_prices,
                    instruments_by_tab, instrument_sets, lock, ctor,
                    worker, reader, snaps, plan, methods, exact_map, d_ws,
                    d_connected, b_session, b_connected, b_active, wire, rest_chain,
                    rest_price, rest_fail, host_vars, session_vars, arrived >>

\* snapshot.config.pop(): config is the manager's own list
ConsumerPopConfig(k) ==
    /\ snaps[k] # None
    /\ snaps[k][1].config = "_market_config"
    /\ market_config # <<>>
    /\ market_config' = SubSeq(market_config, 1, Len(market_config) - 1)
    /\ UNCHANGED << cfg_obj, adapters, tickers, tk_obj, index_prices,
                    instruments_by_tab, inst_obj, instrument_sets, lock, ctor,
                    worker, reader, snaps, plan, methods, exact_map, d_ws,
                    d_connected, b_session, b_connected, b_active, wire, rest_chain,
                    rest_price, rest_fail, host_vars, session_vars, arrived >>

\* the consumer lets go of the snapshot
ConsumerDrop(k) ==
    /\ snaps[k] # None
    /\ LET sn == [snaps EXCEPT ![k] = None]
       IN  /\ snaps' = sn
           /\ tk_obj' = Collect(tk_obj, tickers, reader, sn)
    /\ UNCHANGED << market_config, cfg_obj, adapters, tickers, index_prices,
                    instruments_by_tab, inst_obj, instrument_sets, lock, ctor,
                    worker, reader, plan, methods, exact_map, d_ws, d_connected,
                    b_session, b_connected, b_active, wire, rest_chain, rest_price, rest_fail, host_vars, session_vars,
                    arrived >>

\* a write through snapshot k
ConsumerMutates(k) ==
    \/ ConsumerSetIndex(k)
    \/ ConsumerDelTicker(k)
    \/ ConsumerEditTicker(k)
    \/ ConsumerPopInstrument(k)
    \/ ConsumerEditInstrument(k)
    \/ ConsumerPopConfig(k)

\* what a map of ticker records shows to whoever reads through it
TickerView(tk) == [n \in DOMAIN tk |-> tk_obj[tk[n]]]

\* what the per-tab lists show to whoever reads through them
InstrumentView(ibt) == [t \in DOMAIN ibt |-> [i \in DOMAIN ibt[t] |-> inst_obj[ibt[t][i]]]]

\* the manager's state as its own methods read it
ManagerView ==
    [config             |-> Configs,
     index_prices       |-> index_prices,
     tickers            |-> TickerView(tickers),
     instruments_by_tab |-> InstrumentView(instruments_by_tab),
     instrument_sets    |-> instrument_sets]

\* snapshot k as its holder reads it
SnapshotView(k) ==
    [is_ready           |-> snaps[k][1].is_ready,
     index_prices       |-> snaps[k][1].index_prices,
     tickers            |-> TickerView(snaps[k][1].tickers),
     config             |-> Configs,
     instruments_by_tab |-> InstrumentView(snaps[k][1].instruments_by_tab)]

-----------------------------------------------------------------------------
(* SpecAlias: a worker, a reader whose caller keeps up to MaxSnaps           *)
(* snapshots, and the caller writing through the snapshots it holds.         *)

\* one tab with one instrument; one message for its reference name
InitAlias == InitState(<< TabBTCUSD >>, OneEach, AllPrices(9), WithGetInstruments, EmptyDict)

RawOne == { RawMsg(BTC_USDC_PERP, Some(7), Some(5)) }

NextAlias ==
    \/ Constructor
    \/ Ingest("w1", RawOne)
    \/ GetSnapshot(MaxSnaps)
    \/ \E k \in 1..MaxSnaps : ConsumerMutates(k)
    \/ \E k \in 1..MaxSnaps : ConsumerDrop(k)

SpecAlias == InitAlias /\ [][NextAlias]_vars

\* C1: a write through a snapshot changes neither what the manager's methods
\* read nor what any other snapshot shows.
C1_SnapshotIsolated ==
    [][\A k \in 1..MaxSnaps :
          ConsumerMutates(k) =>
             /\ ManagerView' = ManagerView
             /\ \A j \in (1..MaxSnaps) \ {k} :
                   snaps[j] # None => SnapshotView(j)' = SnapshotView(j)]_vars

-----------------------------------------------------------------------------
(* SpecCtor: FeedManager(...) over the adapter classes as they are defined,  *)
(* for every configuration of up to MaxTabs tabs.                            *)

MaxTabs == 2

TabChoices == {TabBTCUSD, TabBTC, TabUS, TabBIN}

ConfigLists ==
    UNION { [1..n -> TabChoices] : n \in 0..MaxTabs }

InitCtor ==
    \E cfgs \in ConfigLists, v \in {0, 9} :
        InitState(cfgs, OneEach, AllPrices(v), AdapterClassMethods, EmptyDict)

NextCtor ==
    \/ CtorInit
    \/ BootstrapInstrumentsStep
    \/ BootstrapInstrumentsDone
    \/ BootstrapPricesStep
    \/ CtorReturn

SpecCtor == InitCtor /\ [][NextCtor]_vars

\* the names of a list of records, in order
NamesOf(recs) == [i \in DOMAIN recs |-> recs[i].instrument_name]

\* the distinct elements of a list, each at its first occurrence
RECURSIVE FirstOccurrences(_)
FirstOccurrences(xs) ==
    IF xs = <<>> THEN <<>>
    ELSE LET init == FirstOccurrences(SubSeq(xs, 1, Len(xs) - 1))
             x    == xs[Len(xs)]
         IN  IF x \in Range(init) THEN init ELSE Append(init, x)

\* C7: the constructor completes; for a tab whose source has an adapter its
\* bootstrap calls the adapter's get_option_chain, and once it has returned
\* the tab's list holds one record per distinct name of the chain, in
\* first-occurrence order.
C7_BootstrapUsesOptionChain ==
    /\ ctor.pc # "raised"
    /\ \A i \in DOMAIN ctor.called : ctor.called[i][2] = "get_option_chain"
    /\ Constructed =>
          \A i \in DOMAIN Configs :
              SourceOf(Configs[i]) \in adapters =>
                  [j \in DOMAIN instruments_by_tab[Configs[i].tab_name] |->
                      inst_obj[instruments_by_tab[Configs[i].tab_name][j]].instrument_name]
                  = FirstOccurrences(NamesOf(rest_chain[Configs[i].tab_name]))

-----------------------------------------------------------------------------
(* SpecPlan: the constructor over chains of up to MaxChain records (with     *)
(* duplicates), the adapters' sessions, and get_subscription_map calls.      *)

\* the option records a Deribit chain fetch may return for the BTC-USD tab
DeribitRecords ==
    { Instrument(OptionName("BTC_USDC", "20DEC24", <<"105">>, "C")),
      Instrument(OptionName("BTC_USDC", "20DEC24", <<"100">>, "C")),
      Instrument(OptionName("BTC_USDC", "20DEC24", <<"100">>, "P")),
      Instrument(OptionName("BTC_USDC", "20DEC24", <<"100", "0">>, "C")),
      Instrument(OptionName("BTC_USDC", "27DEC24", <<"95">>, "P")),
      Instrument(OptionName("BTC_USDC", "20DEC24", <<"110">>, "C")) }

Chains == UNION { [1..n -> DeribitRecords] : n \in 0..MaxChain }

\* the reference prices the price fetches may answer: none; only the second
\* Deribit reference; both Deribit references, with different prices
PriceMaps ==
    { AllPrices(0),
      [n \in {BTC_USDC, BTC_USDC_PERP, SPY} |-> IF n = BTC_USDC THEN 0 ELSE 100],
      [n \in {BTC_USDC, BTC_USDC_PERP, SPY} |-> IF n = BTC_USDC_PERP THEN 110 ELSE 100] }

InitPlan ==
    \E chain \in Chains, prices \in PriceMaps :
        InitState(ThreeTabs, [OneEach EXCEPT !["BTC-USD"] = chain], prices,
                  WithGetInstruments, EmptyDict)

\* the arguments of the get_subscription_map calls
PlanTabs    == {"BTC-USD", "US", "BIN"}
PlanDates   == { {<<"20DEC24">>}, {<<"20DEC24">>, <<"27DEC24">>} }
PlanWindows == { <<-5, 5>>, <<0, 10>> }

Plan ==
    \E tab \in PlanTabs, dates \in PlanDates, win \in PlanWindows :
        GetSubscriptionMap(tab, dates, win[1], win[2]) /\ UNCHANGED forwarded

NextPlan ==
    \/ Constructor
    \/ Sessions
    \/ Plan

SpecPlan == InitPlan /\ [][NextPlan]_vars

-----------------------------------------------------------------------------
(* Properties of the constructor's merge and of get_subscription_map *)

\* the names of a tab's records, in list order
TabInstrumentNames(tab) ==
    [j \in DOMAIN instruments_by_tab[tab] |->
        inst_obj[instruments_by_tab[tab][j]].instrument_name]

\* C6: in every tab's list the instrument names are pairwise distinct and
\* their set is the tab's instrument set, whatever duplicates the chain held.
C6_TabNamesDistinct ==
    \A tab \in DOMAIN instruments_by_tab :
        /\ \A i, j \in DOMAIN instruments_by_tab[tab] :
              i # j => TabInstrumentNames(tab)[i] # TabInstrumentNames(tab)[j]
        /\ Range(TabInstrumentNames(tab)) = instrument_sets[tab]

\* the constructor has merged a chain that held the same name twice
C6_DuplicateChainMerged ==
    /\ Constructed
    /\ Len(rest_chain["BTC-USD"]) = 2
    /\ rest_chain["BTC-USD"][1].instrument_name = rest_chain["BTC-USD"][2].instrument_name
    /\ Len(instruments_by_tab["BTC-USD"]) = 1

\* the price of the first of refs that has a positive index price, else 0
ClaimedSpot(refs) ==
    LET pos == { i \in DOMAIN refs : Get(index_prices, refs[i], 0) > 0 }
    IN  IF pos = {} THEN 0
        ELSE index_prices[refs[CHOOSE i \in pos : \A j \in pos : i <= j]]

\* C8: in a returned structure every expiry is one of the target dates and
\* every strike k satisfies spot*(1+min_pct/100) <= k <= spot*(1+max_pct/100)
\* for spot the price of the first reference ticker with a positive price;
\* when no reference ticker has one, the structure is empty.
C8_PlanWithinWindow ==
    (plan # None /\ plan[1].outcome = "returned") =>
        LET p    == plan[1]
            spot == ClaimedSpot(p.refs)
        IN  /\ \A d \in DOMAIN p.structure :
                  /\ d \in p.dates
                  /\ \A i \in DOMAIN p.structure[d].strikes :
                        /\ spot * (100 + p.min_pct) <= 100 * p.structure[d].strikes[i]
                        /\ 100 * p.structure[d].strikes[i] <= spot * (100 + p.max_pct)
            /\ spot = 0 => p.structure = EmptyDict

\* a plan whose spot is the second reference's price, that keeps strike 105
\* and leaves out another record of the tab
C8_FallbackSpotPlan ==
    /\ plan # None
    /\ plan[1].tab = "BTC-USD"
    /\ BTC_USDC \notin DOMAIN index_prices
    /\ plan[1].spot = 100
    /\ plan[1].min_pct = -5
    /\ DOMAIN plan[1].structure = { <<"20DEC24">> }
    /\ plan[1].structure[<<"20DEC24">>].strikes = << 105 >>
    /\ Len(instruments_by_tab["BTC-USD"]) = 2

\* C9: in a returned structure, per expiry, strikes is strictly ascending and
\* holds exactly the keys of map; every slot that is set names a record of
\* the tab with that expiry, strike and kind; every strike has a slot set; and
\* every record of the tab inside the dates and the window has its slot set.
C9_StructureShape ==
    (plan # None /\ plan[1].outcome = "returned") =>
        LET p == plan[1]
        IN  /\ \A d \in DOMAIN p.structure :
                  LET e == p.structure[d]
                  IN  /\ \A i \in 1..(Len(e.strikes) - 1) : e.strikes[i] < e.strikes[i + 1]
                      /\ Range(e.strikes) = DOMAIN e.map
                      /\ \A k \in DOMAIN e.map :
                            /\ \E kind \in DOMAIN e.map[k] : e.map[k][kind] # None
                            /\ \A kind \in DOMAIN e.map[k] :
                                  e.map[k][kind] # None =>
                                      LET nm == e.map[k][kind][1]
                                      IN  /\ nm \in Range(TabInstrumentNames(p.tab))
                                          /\ Len(nm) = 4
                                          /\ nm[2] = d
                                          /\ StrikeValue(nm[3]) = Some(k)
                                          /\ nm[4] = kind
            /\ p.why = "planned" =>
                  \A nm \in Range(TabInstrumentNames(p.tab)) :
                      (/\ Len(nm) = 4
                       /\ nm[2] \in p.dates
                       /\ p.spot * (100 + p.min_pct) <= 100 * StrikeValue(nm[3])[1]
                       /\ 100 * StrikeValue(nm[3])[1] <= p.spot * (100 + p.max_pct)) =>
                          /\ nm[2] \in DOMAIN p.structure
                          /\ StrikeValue(nm[3])[1] \in DOMAIN p.structure[nm[2]].map
                          /\ p.structure[nm[2]].map[StrikeValue(nm[3])[1]][nm[4]] # None

\* a plan over a chain that lists strike 105 before strike 100
C9_SortedTwoStrikes ==
    /\ plan # None
    /\ plan[1].tab = "BTC-USD"
    /\ Len(instruments_by_tab["BTC-USD"]) = 2
    /\ StrikeValue(TabInstrumentNames("BTC-USD")[1][3]) = Some(105)
    /\ <<"20DEC24">> \in DOMAIN plan[1].structure
    /\ plan[1].structure[<<"20DEC24">>].strikes = << 100, 105 >>
    /\ plan[1].structure[<<"20DEC24">>].map[100][<<"C">>]
          = Some(OptionName("BTC_USDC", "20DEC24", <<"100">>, "C"))

\* the channels the claim expects for plan p: one per reference ticker, then
\* one per record of the tab that the structure places, each wrapped once
ClaimedChannels(p) ==
    [i \in DOMAIN p.refs |-> TickerChannel(p.refs[i])]
    \o LET placed == SelectSeq(TabInstrumentNames(p.tab),
                               LAMBDA nm : /\ Len(nm) = 4
                                           /\ nm[2] \in DOMAIN p.structure
                                           /\ StrikeValue(nm[3])[1] \in
                                                  DOMAIN p.structure[nm[2]].map)
       IN  [i \in DOMAIN placed |-> TickerChannel(placed[i])]

\* C10 (for the tab served by the Deribit adapter): a call that returns a
\* non-empty structure while the adapter is streaming hands the transport
\* exactly one request, whose channels are ticker.{ref}.100ms for each
\* reference ticker and then ticker.{name}.100ms for each placed record, each
\* wrapped once; while the adapter is not streaming it hands it nothing.
C10_OneRequestChannelsOnce ==
    [][(/\ Plan
        /\ plan'[1].tab = "BTC-USD"
        /\ plan'[1].outcome = "returned"
        /\ plan'[1].structure # EmptyDict) =>
           IF d_connected /\ d_ws = "open"
           THEN /\ Len(wire') = 1
                /\ wire'[1].channels = ClaimedChannels(plan'[1])
           ELSE wire' = <<>>]_vars

-----------------------------------------------------------------------------
(* Data events: what the vendors' sessions hand to ingest_ticker *)

\* BloombergAdapter._run_session lines 310-314 and _handle_msg (lines
\* 316-334): a SUBSCRIPTION_DATA event of one of the subscriptions of the
\* latest request; the name is the subscription's correlation id, and the
\* message is ingested only when LAST_PRICE or BID is truthy
BloombergHandleMsg(w) ==
    /\ b_connected
    /\ b_session = "started"
    /\ \E k \in DOMAIN wire :
          /\ wire[k].adapter = "bloomberg"
          /\ \E i \in DOMAIN wire[k].cids :
             \E last \in {None, Some(5)}, bid \in {None, Some(4)} :
                IF Truthy(last) \/ Truthy(bid)
                THEN IngestCall(w, [RawMsg(wire[k].cids[i], None, last)
                                       EXCEPT !.best_bid_price = bid])
                ELSE UNCHANGED vars

\* DeribitAdapter._on_message (deribit.py:156-167) with an empty reverse_map:
\* the exchange's data dict goes to ingest_ticker under the exchange's name,
\* whatever prices it carries; the second message has neither a last price
\* nor a bid
DeribitOnMessage(w) ==
    /\ d_ws = "open"
    /\ \E raw \in RawOne \cup { RawMsg(BTC_USDC_PERP, Some(7), None) } :
          IngestCall(w, raw)

\* one planner call per adapter
PlanFeed ==
    \E tab \in {"BTC-USD", "US"} :
        GetSubscriptionMap(tab, {<<"20DEC24">>}, -5, 5) /\ UNCHANGED forwarded

\* the manager with both sessions, the planner and the adapters' data events
InitFeed ==
    InitState(ThreeTabs, OneEach, AllPrices(100), WithGetInstruments, EmptyDict)

NextFeed ==
    \/ Constructor
    \/ Sessions
    \/ PlanFeed
    \/ BloombergHandleMsg("w1")
    \/ DeribitOnMessage("w1")
    \/ IngestAcquire("w1") /\ UNCHANGED arrived
    \/ IngestWriteTicker("w1")
    \/ IngestWriteIndex("w1")
    \/ IngestReturn("w1")

SpecFeed == InitFeed /\ [][NextFeed]_vars

\* the names of the manager's protocol: the reference names of the
\* configured tabs and the instrument names of the tabs' chains
CanonicalNames ==
    UNION { Range(get_reference_tickers(SourceOf(Configs[i]), Configs[i])) :
              i \in DOMAIN market_config }
    \cup UNION { instrument_sets[t] : t \in DOMAIN instrument_sets }

\* C11: every key of the ticker and index-price maps is a canonical name, and
\* every correlation id BloombergAdapter.subscribe attaches to a topic (the
\* name its data events are ingested under) is the canonical name.
C11_CanonicalKeysAndCids ==
    /\ DOMAIN tickers \subseteq CanonicalNames
    /\ DOMAIN index_prices \subseteq CanonicalNames
    /\ \A k \in DOMAIN wire :
          wire[k].adapter = "bloomberg" => Range(wire[k].cids) \subseteq CanonicalNames

-----------------------------------------------------------------------------
(* The adapters' session workers, one step at a time                        *)
(* (deribit.py:47-53, 127-154; bloomberg.py:90-97, 301-314)                 *)

\* the largest number of start_stream calls
MaxStarts == 2
\* the largest number of on_adapter_reconnect calls per adapter
MaxSignals == 2
\* the largest number of times one name is handed to one transport
MaxForward == 2

\* what the session workers leave alone
manager_rest == << market_config, cfg_obj, adapters, tickers, tk_obj, index_prices,
                   inst_obj, instrument_sets, lock, ctor,
                   worker, reader, snaps, plan, methods, exact_map, b_active,
                   wire, rest_chain, rest_price, rest_fail, host_vars, arrived >>
manager_vars == << manager_rest, instruments_by_tab >>
deribit_vars   == << d_ws, d_connected, d_stop, d_thr, d_cur >>
bloomberg_vars == << b_session, b_connected, b_stop, b_thr, b_cur >>

\* the import of blpapi succeeded (bloomberg.py:10-15)
HAS_BLPAPI == TRUE

\* a thread entering _ws_loop: at the loop test, with no WebSocketApp yet;
\* auth is "none", "sent" (public/auth written) or "acked"
NewDeribitThread == [pc |-> "check", sock |-> "none", auth |-> "none"]

\* a thread entering _run_session, with no Session yet
NewBloombergThread == [pc |-> "new", sess |-> "none"]

\* self.ws as the other operations see it: the socket of the WebSocketApp
\* the attribute refers to
SelfWs(thr, cur) == IF cur = 0 THEN "none" ELSE thr[cur].sock

\* self.session as the other operations see it
SelfSession(thr, cur) == IF cur = 0 THEN "none" ELSE thr[cur].sess

\* FeedManager.start_stream (manager.py:135-136): every adapter's start()
\* spawns a thread (deribit.py:47-49, bloomberg.py:90-93)
StartStream ==
    /\ Constructed
    /\ Len(d_thr) < MaxStarts
    /\ Len(b_thr) < MaxStarts
    /\ d_thr' = IF "deribit" \in adapters THEN Append(d_thr, NewDeribitThread)
                ELSE d_thr
    /\ b_thr' = IF "bloomberg" \in adapters /\ HAS_BLPAPI
                THEN Append(b_thr, NewBloombergThread)
                ELSE b_thr
    /\ UNCHANGED << manager_vars, d_ws, d_connected, d_stop, d_cur,
                    b_session, b_connected, b_stop, b_cur, notified, forwarded >>

\* WebSocketApp.close() on a socket in state s: an open socket is closed; an
\* application whose run_forever has not connected yet is either aborted or,
\* when run_forever has not begun, left to connect
CloseOutcomes(s) ==
    CASE s = "open"       -> {"closed"}
      [] s = "connecting" -> {"connecting", "closed"}
      [] OTHER            -> {s}

\* Session.stop() on a session in state s
StopOutcome(s) == IF s = "started" THEN "stopped" ELSE s

\* FeedManager.stop_stream (manager.py:137-138): every adapter's stop() sets
\* its event and closes the transport its attribute refers to, if any
\* (deribit.py:51-53, bloomberg.py:95-97)
StopStream ==
    /\ Constructed
    /\ d_thr # <<>> \/ b_thr # <<>>
    /\ d_stop' = (d_stop \/ "deribit" \in adapters)
    /\ \E s \in CloseOutcomes(SelfWs(d_thr, d_cur)) :
          d_thr' = IF "deribit" \in adapters /\ d_cur # 0
                   THEN [d_thr EXCEPT ![d_cur].sock = s]
                   ELSE d_thr
    /\ d_ws' = SelfWs(d_thr', d_cur)
    /\ b_stop' = (b_stop \/ "bloomberg" \in adapters)
    /\ b_thr' = IF "bloomberg" \in adapters /\ b_cur # 0
                THEN [b_thr EXCEPT ![b_cur].sess = StopOutcome(b_thr[b_cur].sess)]
                ELSE b_thr
    /\ b_session' = SelfSession(b_thr', b_cur)
    /\ UNCHANGED << manager_vars, d_connected, d_cur, b_connected, b_cur,
                    notified, forwarded >>

\* _ws_loop line 128: the loop test
DeribitLoopTest(i) ==
    /\ d_thr[i].pc = "check"
    /\ d_thr' = [d_thr EXCEPT ![i].pc = IF d_stop THEN "exit" ELSE "create"]
    /\ UNCHANGED << manager_vars, d_ws, d_connected, d_stop, d_cur,
                    bloomberg_vars, notified, forwarded >>

\* lines 131-137: self.ws = WebSocketApp(...), a transport nothing was sent on
DeribitNewApp(i) ==
    /\ d_thr[i].pc = "create"
    /\ d_thr' = [d_thr EXCEPT ![i] = [pc |-> "run", sock |-> "connecting",
                                      auth |-> "none"]]
    /\ d_cur' = i
    /\ d_ws' = "connecting"
    /\ forwarded' = [forwarded EXCEPT !["deribit"] = EmptyDict]
    /\ UNCHANGED << manager_vars, d_connected, d_stop, bloomberg_vars, notified >>

\* line 138, run_forever: the connection is made or fails
DeribitRunForever(i) ==
    /\ d_thr[i].pc = "run"
    /\ d_thr[i].sock = "connecting"
    /\ \E ok \in BOOLEAN :
          d_thr' = [d_thr EXCEPT ![i].sock = IF ok THEN "open" ELSE "closed",
                                 ![i].pc = IF ok THEN "opened" ELSE "run"]
    /\ d_ws' = SelfWs(d_thr', d_cur)
    /\ UNCHANGED << manager_vars, d_connected, d_stop, d_cur,
                    bloomberg_vars, notified, forwarded >>

\* a variant of on_adapter_reconnect that empties the lists for a new bootstrap
OnReconnectReset(ibt, source_name) == [t \in DOMAIN ibt |-> <<>>]

\* FeedManager.on_adapter_reconnect (manager.py:200), whose body is `pass`:
\* the per-tab lists after the call
on_adapter_reconnect(ibt, source_name) == ibt

\* _on_open (lines 143-154): public/auth is written when credentials are
\* configured, then connected = True and the manager is signalled
DeribitOnOpenCallback(i) ==
    /\ d_thr[i].pc = "opened"
    /\ d_thr[i].sock = "open"
    /\ notified["deribit"] < MaxSignals
    /\ \E api_id \in BOOLEAN :
          d_thr' = [d_thr EXCEPT ![i].pc = "stream",
                                 ![i].auth = IF api_id THEN "sent" ELSE "none"]
    /\ d_connected' = TRUE
    /\ notified' = [notified EXCEPT !["deribit"] = @ + 1]
    /\ instruments_by_tab' = on_adapter_reconnect(instruments_by_tab, "deribit")
    /\ UNCHANGED << manager_rest, d_ws, d_stop, d_cur, bloomberg_vars, forwarded >>

\* the exchange answers public/auth; _on_message drops the answer (it has no
\* 'params', line 160)
DeribitAuthAck(i) ==
    /\ d_thr[i].pc = "stream"
    /\ d_thr[i].sock = "open"
    /\ d_thr[i].auth = "sent"
    /\ d_thr' = [d_thr EXCEPT ![i].auth = "acked"]
    /\ UNCHANGED << manager_vars, d_ws, d_connected, d_stop, d_cur,
                    bloomberg_vars, notified, forwarded >>

\* the peer or the network drops the connection
DeribitPeerDrop(i) ==
    /\ d_thr[i].sock = "open"
    /\ d_thr' = [d_thr EXCEPT ![i].sock = "closed"]
    /\ d_ws' = SelfWs(d_thr', d_cur)
    /\ UNCHANGED << manager_vars, d_connected, d_stop, d_cur,
                    bloomberg_vars, notified, forwarded >>

\* run_forever returns on a closed socket after calling on_close (line 136:
\* connected = False); the thread goes on to time.sleep(2)
DeribitRunReturns(i) ==
    /\ d_thr[i].pc \in {"run", "opened", "stream"}
    /\ d_thr[i].sock = "closed"
    /\ d_thr' = [d_thr EXCEPT ![i].pc = "sleep"]
    /\ d_connected' = FALSE
    /\ UNCHANGED << manager_vars, d_ws, d_stop, d_cur, bloomberg_vars,
                    notified, forwarded >>

\* line 141: time.sleep(2) is over
DeribitSleepOver(i) ==
    /\ d_thr[i].pc = "sleep"
    /\ d_thr' = [d_thr EXCEPT ![i].pc = "check"]
    /\ UNCHANGED << manager_vars, d_ws, d_connected, d_stop, d_cur,
                    bloomberg_vars, notified, forwarded >>

\* one step of a thread inside DeribitAdapter._ws_loop
DeribitWsLoop ==
    \E i \in DOMAIN d_thr :
        \/ DeribitLoopTest(i)
        \/ DeribitNewApp(i)
        \/ DeribitRunForever(i)
        \/ DeribitOnOpenCallback(i)
        \/ DeribitAuthAck(i)
        \/ DeribitPeerDrop(i)
        \/ DeribitRunReturns(i)
        \/ DeribitSleepOver(i)

\* the log of the transports after the requests reqs were written to them
Forward(log, reqs) ==
    [s \in DOMAIN log |->
        LET hits == { p \in UNION { { <<k, i>> : i \in DOMAIN reqs[k].channels } :
                                      k \in DOMAIN reqs } :
                        reqs[p[1]].adapter = s }
            name(p) == reqs[p[1]].channels[p[2]]
        IN  [c \in (DOMAIN log[s]) \cup { name(p) : p \in hits } |->
                Get(log[s], c, 0) + Cardinality({ p \in hits : name(p) = c })]]

\* get_subscription_map calls of a host while the sessions run
PlanSess ==
    /\ \A s \in DOMAIN forwarded : \A c \in DOMAIN forwarded[s] :
          forwarded[s][c] < MaxForward
    /\ \E tab \in {"BTC-USD", "US"} :
          GetSubscriptionMap(tab, {<<"20DEC24">>}, -5, 5)
    /\ forwarded' = Forward(forwarded, wire')

\* a manager configured with Deribit tabs only
InitDeribit ==
    InitState(<< TabBTCUSD >>, OneEach, AllPrices(100), WithGetInstruments, EmptyDict)

NextDeribit ==
    \/ Constructor
    \/ StartStream
    \/ StopStream
    \/ DeribitWsLoop
    \/ PlanSess

SpecDeribit == InitDeribit /\ [][NextDeribit]_vars

\* C12: within one session each channel is handed to the transport at most
\* once, whatever the number of get_subscription_map calls.
C12_ForwardedOnce ==
    \A s \in DOMAIN forwarded : \A c \in DOMAIN forwarded[s] : forwarded[s][c] <= 1

-----------------------------------------------------------------------------
(* BloombergAdapter._run_session, one step at a time (bloomberg.py:301-314) *)

\* lines 302-305: self.session = blpapi.Session(options), a session nothing
\* was subscribed on
BloombergNewSession(i) ==
    /\ b_thr[i].pc = "new"
    /\ b_thr' = [b_thr EXCEPT ![i] = [pc |-> "start", sess |-> "created"]]
    /\ b_cur' = i
    /\ b_session' = "created"
    /\ forwarded' = [forwarded EXCEPT !["bloomberg"] = EmptyDict]
    /\ UNCHANGED << manager_vars, deribit_vars, b_connected, b_stop, notified >>

\* line 306: session.start() succeeds, or fails and the thread returns
BloombergSessionStart(i) ==
    /\ b_thr[i].pc = "start"
    /\ \E ok \in BOOLEAN :
          b_thr' = [b_thr EXCEPT ![i] = IF ok THEN [pc |-> "service", sess |-> "started"]
                                        ELSE [pc |-> "exit", sess |-> @.sess]]
    /\ b_session' = SelfSession(b_thr', b_cur)
    /\ UNCHANGED << manager_vars, deribit_vars, b_connected, b_stop, b_cur,
                    notified, forwarded >>

\* lines 307-308: openService succeeds and connected = True, or it fails (as
\* it does on a session that was stopped) and the thread returns
BloombergOpenService(i) ==
    /\ b_thr[i].pc = "service"
    /\ \E ok \in IF b_thr[i].sess = "started" THEN BOOLEAN ELSE {FALSE} :
          /\ b_thr' = [b_thr EXCEPT ![i].pc = IF ok THEN "stream" ELSE "exit"]
          /\ b_connected' = (b_connected \/ ok)
    /\ UNCHANGED << manager_vars, deribit_vars, b_session, b_stop, b_cur,
                    notified, forwarded >>

\* line 310: the loop test finds the event set and the thread returns
BloombergLoopExit(i) ==
    /\ b_thr[i].pc = "stream"
    /\ b_stop
    /\ b_thr' = [b_thr EXCEPT ![i].pc = "exit"]
    /\ UNCHANGED << manager_vars, deribit_vars, b_session, b_connected, b_stop,
                    b_cur, notified, forwarded >>

\* the terminal connection is lost: the session is terminated, which the
\* event loop (lines 311-314) does not look at
BloombergSessionDown(i) ==
    /\ b_thr[i].sess = "started"
    /\ b_thr' = [b_thr EXCEPT ![i].sess = "terminated"]
    /\ b_session' = SelfSession(b_thr', b_cur)
    /\ UNCHANGED << manager_vars, deribit_vars, b_connected, b_stop, b_cur,
                    notified, forwarded >>

\* one step of a thread inside BloombergAdapter._run_session
BloombergRunLoop ==
    \E i \in DOMAIN b_thr :
        \/ BloombergNewSession(i)
        \/ BloombergSessionStart(i)
        \/ BloombergOpenService(i)
        \/ BloombergLoopExit(i)
        \/ BloombergSessionDown(i)

\* a manager configured with Bloomberg tabs only
InitBloomberg ==
    InitState(<< TabUS >>, OneEach, AllPrices(100), WithGetInstruments, EmptyDict)

NextBloomberg ==
    \/ Constructor
    \/ StartStream
    \/ StopStream
    \/ BloombergRunLoop
    \/ PlanSess

SpecBloomberg == InitBloomberg /\ [][NextBloomberg]_vars

\* a Bloomberg worker enters Streaming in this step
BloombergEntersStreaming ==
    \E i \in DOMAIN b_thr : b_thr[i].pc # "stream" /\ b_thr'[i].pc = "stream"

\* a Deribit worker enters Streaming in this step
DeribitEntersStreaming ==
    \E i \in DOMAIN d_thr : d_thr[i].pc # "stream" /\ d_thr'[i].pc = "stream"

\* a Bloomberg worker enters Streaming in this step after the session before
\* it has ended, with no get_subscription_map call since that session's last
\* request: the latest call put a request on a transport (wire is not empty),
\* nothing was handed to the new session, the session before it is
\* terminated and stop_stream was not called
BloombergReentersStreaming ==
    /\ ~b_stop
    /\ wire # <<>>
    /\ forwarded["bloomberg"] = EmptyDict
    /\ \E i \in DOMAIN b_thr :
          /\ b_thr[i].pc # "stream" /\ b_thr'[i].pc = "stream"
          /\ \E j \in DOMAIN b_thr \ {i} : b_thr[j].sess = "terminated"
          /\ \A j \in DOMAIN b_thr \ {i} : b_thr[j].sess # "started"

\* C13: when Streaming is entered again after a session was lost, with no
\* get_subscription_map call in between, the set of active subscriptions is
\* empty, so that the next call sends the full list again.
C13_ActiveClearedOnEntry ==
    [][BloombergReentersStreaming => b_active' = {}]_vars

\* C14: every entry to Streaming calls on_adapter_reconnect with the
\* adapter's name exactly once, for both adapters.
C14_EntrySignalsManager ==
    [][/\ BloombergEntersStreaming
          => notified'["bloomberg"] = notified["bloomberg"] + 1
       /\ DeribitEntersStreaming
          => notified'["deribit"] = notified["deribit"] + 1]_vars

\* C15: an adapter that was started and not stopped keeps a worker that will
\* attempt the next connection: while the stop event is clear, not every
\* worker of the adapter has returned.
C15_WorkerKeepsTrying ==
    /\ (~b_stop /\ b_thr # <<>>) => \E i \in DOMAIN b_thr : b_thr[i].pc # "exit"
    /\ (~d_stop /\ d_thr # <<>>) => \E i \in DOMAIN d_thr : d_thr[i].pc # "exit"

\* C16: once stop_stream has run, no transport is opened: no socket becomes
\* open and no session becomes started.
C16_NothingOpensAfterStop ==
    [][/\ d_stop => \A i \in DOMAIN d_thr :
                       d_thr'[i].sock = "open" => d_thr[i].sock = "open"
       /\ b_stop => \A i \in DOMAIN b_thr :
                       b_thr'[i].sess = "started" => b_thr[i].sess = "started"]_vars

\* C17: however often start_stream and stop_stream are called, an adapter
\* has at most one session worker and at most one live transport.
C17_OneWorkerOneTransport ==
    /\ Cardinality({ i \in DOMAIN d_thr : d_thr[i].pc # "exit" }) <= 1
    /\ Cardinality({ i \in DOMAIN d_thr : d_thr[i].sock \in {"connecting", "open"} }) <= 1
    /\ Cardinality({ i \in DOMAIN b_thr : b_thr[i].pc # "exit" }) <= 1
    /\ Cardinality({ i \in DOMAIN b_thr : b_thr[i].sess = "started" }) <= 1

\* the adapter's session is in Streaming: its transport is up, the
\* credentials it sent are acknowledged, and stop() was not called
DeribitStreaming ==
    /\ d_cur # 0
    /\ d_thr[d_cur].sock = "open"
    /\ d_thr[d_cur].auth # "sent"
    /\ ~d_stop

BloombergStreaming ==
    /\ b_cur # 0
    /\ b_thr[b_cur].sess = "started"
    /\ b_thr[b_cur].pc = "stream"
    /\ ~b_stop

\* C18: an adapter's connected flag is true only while its session is in
\* Streaming.
C18_ConnectedOnlyStreaming ==
    /\ d_connected => DeribitStreaming
    /\ b_connected => BloombergStreaming

-----------------------------------------------------------------------------
(* get_subscription_map over chains that hold names of other shapes *)

\* records an exchange's instrument list may hold: a plain option, an option
\* whose strike is written with a 'd' for the decimal point, a name of three
\* parts
OddRecords ==
    { Instrument(OptionName("BTC_USDC", "20DEC24", <<"100">>, "C")),
      Instrument(OptionName("BTC_USDC", "20DEC24", <<"0d5">>, "C")),
      Instrument(<< <<"BTC_USDC">>, <<"20DEC24">>, <<"100">> >>) }

InitOdd ==
    \E chain \in UNION { [1..n -> OddRecords] : n \in 0..MaxChain },
       prices \in {AllPrices(0), AllPrices(100)} :
        InitState(ThreeTabs, [OneEach EXCEPT !["BTC-USD"] = chain], prices,
                  WithGetInstruments, EmptyDict)

\* calls for a Deribit tab, a tab without adapter and a tab that is not configured
PlanOdd ==
    \E tab \in {"BTC-USD", "BIN", "XRP"} :
        GetSubscriptionMap(tab, {<<"20DEC24">>}, -5, 5) /\ UNCHANGED forwarded

NextOdd ==
    \/ Constructor
    \/ Sessions
    \/ PlanOdd

SpecOdd == InitOdd /\ [][NextOdd]_vars

\* C19: a get_subscription_map call returns to its caller with the mutex
\* released; it returns an empty structure when the tab is unknown, has no
\* adapter or has no positive reference price; and the structure holds only
\* names of four parts with a numeric strike, the other records being skipped.
C19_PlannerNeverRaises ==
    plan # None =>
        /\ plan[1].outcome = "returned"
        /\ lock = "free"
        /\ plan[1].why \in {"no tab", "no adapter", "no spot"}
              => plan[1].structure = EmptyDict
        /\ \A d \in DOMAIN plan[1].structure :
           \A k \in DOMAIN plan[1].structure[d].map :
           \A kind \in DOMAIN plan[1].structure[d].map[k] :
              LET slot == plan[1].structure[d].map[k][kind]
              IN  slot # None => /\ Len(SplitDash(slot[1])) = 4
                                 /\ StrikeValue(SplitDash(slot[1])[3]) # None

-----------------------------------------------------------------------------
(* The constructor when bootstrap fetches fail *)

\* how a chain fetch may end
FetchOutcomes == {"ok", "refused", "status", "parse"}

\* each of the two adapters' chain fetches ends in any way; every price
\* fetch fails (0.0) or every price fetch answers 100
InitBoot ==
    \E d \in FetchOutcomes, b \in FetchOutcomes, v \in {0, 100} :
        InitStateWith(ThreeTabs, OneEach, AllPrices(v), WithGetInstruments, EmptyDict,
                      [AllFetched EXCEPT !["BTC-USD"] = d, !["US"] = b])

SpecBoot == InitBoot /\ [][Constructor]_vars

\* C20: whatever fetches fail during bootstrap, the constructor does not
\* raise; when it has returned, every tab whose chain fetch succeeded holds
\* the names of its chain and every tab whose fetch failed holds none, and
\* the index prices are exactly the positive answers of the price fetches.
C20_BootstrapSurvivesFailures ==
    /\ ctor.pc # "raised"
    /\ Constructed =>
          /\ \A i \in DOMAIN Configs :
                SourceOf(Configs[i]) \in adapters =>
                   instrument_sets[Configs[i].tab_name]
                     = IF rest_fail[Configs[i].tab_name] = "ok"
                       THEN Range(NamesOf(rest_chain[Configs[i].tab_name]))
                       ELSE {}
          /\ \A n \in DOMAIN index_prices : index_prices[n] = rest_price[n]
          /\ \A i \in DOMAIN Configs :
                SourceOf(Configs[i]) \in adapters =>
                   \A n \in Range(get_reference_tickers(SourceOf(Configs[i]), Configs[i])) :
                      Get(rest_price, n, 0) > 0 => n \in DOMAIN index_prices

-----------------------------------------------------------------------------
(* BloombergAdapter: vendor ticker -> canonical name (bloomberg.py:244-281), *)
(* and the translation there and back                                       *)

\* everything but the calls in progress
all_but_host == << market_config, cfg_obj, adapters, tickers, tk_obj, index_prices,
                   instruments_by_tab, inst_obj, instrument_sets, lock, ctor,
                   worker, reader, snaps, plan, methods, exact_map, b_active,
                   wire, rest_chain, rest_price, rest_fail, arrived,
                   deribit_vars, bloomberg_vars, notified, forwarded >>

\* BloombergAdapter.exact_map when feed_instruments.csv holds the row
\* TENCENT with the value "exact:0700 HK Equity" (lines 85-86)
BbgExactMap ==
    [n \in { Atom("TENCENT") } |-> << <<"0700">>, <<"HK">>, <<"Equity">> >>]

\* _convert_to_bbg with that map loaded (lines 214-215, then 217-242)
ConvertToBbgMapped(name) ==
    IF name \in DOMAIN BbgExactMap THEN Some(BbgExactMap[name]) ELSE ConvertToBbg(name)

\* the digit strings of the model's strikes
DigitStrings == {"100", "105", "688"}

\* groups 3 and 4 of bbg_regex on the first atom of a word: a C or P, then
\* digits; None when the atom has no such form
KindAndDigits(atom) ==
    LET hits == { p \in {"C", "P"} \X DigitStrings : p[1] \o p[2] = atom }
    IN  IF hits = {} THEN None ELSE Some(CHOOSE p \in hits : TRUE)

\* datetime.strptime(d, "%m/%d/%y").strftime("%d%b%y").upper(), None when
\* strptime raises
AppDate(d) ==
    CASE d = "12/20/24" -> Some("20DEC24")
      [] d = "12/27/24" -> Some("27DEC24")
      [] d = "12/05/24" -> Some("05DEC24")
      [] d = "02/20/26" -> Some("20FEB26")
      [] OTHER          -> None

\* f"{float(strike_str):g}" on the atoms of a strike: a fraction of zero goes
FormatG(strike) ==
    IF Len(strike) = 2 /\ strike[2] = "0" THEN << strike[1] >> ELSE strike

\* _parse_bbg_to_app (lines 244-281): the instrument_name of the dict it
\* returns, None when it returns None
ParseBbgToApp(t) ==
    IF /\ Len(t) = 5
       /\ Len(t[1]) = 1 /\ Len(t[2]) = 1 /\ Len(t[3]) = 1
       /\ KindAndDigits(t[4][1]) # None
       /\ t[5] \in { <<"Equity">>, <<"Index">> }
    THEN IF AppDate(t[3][1]) = None THEN None
         ELSE LET kd == KindAndDigits(t[4][1])[1]
              IN  Some(<< t[1], << AppDate(t[3][1])[1] >>,
                          FormatG(<< kd[2] >> \o Tail(t[4])), << kd[1] >> >>)
    ELSE IF /\ Len(t) \in {2, 3}
            /\ \A i \in DOMAIN t : Len(t[i]) = 1
            /\ t[Len(t)] \in { <<"Equity">>, <<"Index">>, <<"Comdty">> }
    THEN Some(<< t[1] >>)
    ELSE None

\* well-formed canonical names: options, with a day of one or two digits,
\* and underlyings (plain, index, exact-mapped, dotted)
TripOptions ==
    { OptionName(sym, date, strike, kind) :
        sym \in {"SPY", "SPX", "QQQ"},
        date \in {"20DEC24", "27DEC24", "5DEC24", "20FEB26"},
        strike \in { <<"100">>, <<"105">>, <<"688">>, <<"100", "5">> },
        kind \in {"C", "P"} }

TripUnderlyings ==
    { Atom("SPY"), Atom("QQQ"), Atom("SPX"), Atom("TENCENT"),
      << <<"0700", "HK">> >> }

\* a caller hands a canonical name to the translator
TripCall ==
    /\ trip.pc = "idle"
    /\ \E name \in TripOptions \cup TripUnderlyings :
          trip' = [pc |-> "called", name |-> name, vendor |-> None, back |-> None]
    /\ UNCHANGED << all_but_host, expiries, planner >>

\* _convert_to_bbg(name)
TripConvert ==
    /\ trip.pc = "called"
    /\ trip' = [trip EXCEPT !.pc = "converted",
                            !.vendor = ConvertToBbgMapped(trip.name)]
    /\ UNCHANGED << all_but_host, expiries, planner >>

\* _parse_bbg_to_app of the vendor ticker
TripParse ==
    /\ trip.pc = "converted"
    /\ trip' = [trip EXCEPT !.pc = "parsed",
                            !.back = IF trip.vendor = None THEN None
                                     ELSE ParseBbgToApp(trip.vendor[1])]
    /\ UNCHANGED << all_but_host, expiries, planner >>

InitTrip ==
    InitState(<< TabUS >>, OneEach, AllPrices(100), WithGetInstruments, EmptyDict)

NextTrip ==
    \/ TripCall
    \/ TripConvert
    \/ TripParse

SpecTrip == InitTrip /\ [][NextTrip]_vars

\* C21: translating a well-formed canonical name to the vendor form and
\* parsing the result gives the name back.
C21_RoundTrip ==
    trip.pc = "parsed" => trip.back = Some(trip.name)

-----------------------------------------------------------------------------
(* FeedManager.get_expiries_for (manager.py:153-166) and the manager under  *)
(* all of its calls                                                         *)

\* the sort key of line 163-165: the parsed date, datetime.max when
\* strptime raises
ExpiryKey(d) ==
    CASE d = <<"20DEC24">> -> 20241220
      [] d = <<"27DEC24">> -> 20241227
      [] OTHER             -> 99991231

\* lines 155-159: the second part of every name that has one
ExpiryDates(names) ==
    { SplitDash(names[i])[2] : i \in { j \in DOMAIN names : Len(SplitDash(names[j])) > 1 } }

\* the whole call, under the mutex: [] for a tab without list, else the dates
\* in the order of their keys (dates of equal key in any order)
GetExpiriesFor(tab) ==
    /\ Constructed
    /\ CanAcquire("e")
    /\ IF tab \notin DOMAIN instruments_by_tab
       THEN expiries' = <<>>
       ELSE \E dates \in { ExpiryDates(TabInstrumentNames(tab)) } :
            \E sorted \in { s \in [1..Cardinality(dates) -> dates] :
                              /\ Range(s) = dates
                              /\ \A i, j \in DOMAIN s :
                                    i < j => ExpiryKey(s[i]) <= ExpiryKey(s[j]) } :
               expiries' = sorted
    /\ UNCHANGED << all_but_host, trip, planner >>

\* a Deribit manager whose chain holds two expiries, the later one first
InitFrame ==
    InitState(<< TabBTCUSD >>,
              [OneEach EXCEPT !["BTC-USD"] =
                  << Instrument(OptionName("BTC_USDC", "27DEC24", <<"100">>, "C")),
                     Instrument(OptionName("BTC_USDC", "20DEC24", <<"100">>, "C")) >>],
              AllPrices(100), WithGetInstruments, EmptyDict)

NextFrame ==
    \/ Constructor
    \/ Ingest("w1", RawOne)
    \/ GetSnapshot(1)
    \/ \E tab \in {"BTC-USD", "XRP"} : GetExpiriesFor(tab)
    \/ PlanSess
    \/ d_thr = <<>> /\ StartStream
    \/ StopStream
    \/ DeribitWsLoop

SpecFrame == InitFrame /\ [][NextFrame]_vars

\* C22: once the constructor has returned, no call changes the per-tab
\* instrument lists, their records, the per-tab name sets or the market
\* config; and a step of get_snapshot, get_expiries_for or
\* get_subscription_map changes neither the ticker map nor the index prices.
C22_FrameAfterConstruction ==
    [][ctor.pc = "done" =>
          /\ instruments_by_tab' = instruments_by_tab
          /\ inst_obj' = inst_obj
          /\ instrument_sets' = instrument_sets
          /\ market_config' = market_config
          /\ cfg_obj' = cfg_obj
          /\ (reader' # reader \/ snaps' # snaps \/ expiries' # expiries \/ plan' # plan)
                => tickers' = tickers /\ index_prices' = index_prices]_vars

\* every kind of call was made on the constructed manager
C22_AllCallsMade ==
    /\ ctor.pc = "done"
    /\ BTC_USDC_PERP \in DOMAIN tickers
    /\ snaps[1] # None
    /\ expiries = << <<"20DEC24">>, <<"27DEC24">> >>
    /\ plan # None /\ wire # <<>>
    /\ d_stop
    /\ notified["deribit"] > 0
    /\ Len(instruments_by_tab["BTC-USD"]) = 2


-----------------------------------------------------------------------------
(* Duplicate (date, strike, kind) among the records of a tab *)

\* C23: when a returned structure names a record in structure[date].map[k][kind],
\* that record is the first one in instruments_by_tab order among the tab's
\* records with that date, a strike equal to k as a number and that kind.
C23_FirstDuplicateKept ==
    (plan # None /\ plan[1].outcome = "returned" /\ plan[1].why = "planned") =>
        \A d \in DOMAIN plan[1].structure :
        \A k \in DOMAIN plan[1].structure[d].map :
        \A kind \in DOMAIN plan[1].structure[d].map[k] :
            LET names == TabInstrumentNames(plan[1].tab)
                same  == { i \in DOMAIN names :
                             /\ Len(SplitDash(names[i])) >= 4
                             /\ SplitDash(names[i])[2] = d
                             /\ StrikeValue(SplitDash(names[i])[3]) = Some(k)
                             /\ SplitDash(names[i])[4] = kind }
            IN  plan[1].structure[d].map[k][kind] # None =>
                  plan[1].structure[d].map[k][kind]
                    = Some(names[CHOOSE i \in same : \A j \in same : i <= j])


-----------------------------------------------------------------------------
(* Messages without a price *)

\* C24: a data message whose last_price and best_bid_price are both absent or
\* zero never reaches ingest_ticker, from either adapter: every call of
\* ingest_ticker carries a message with a truthy last price or a truthy bid.
C24_EmptyMessagesDropped ==
    [][\A w \in DOMAIN worker :
          (worker[w].pc = "idle" /\ worker'[w].pc = "norm") =>
              \/ Truthy(worker'[w].raw[1].last_price)
              \/ Truthy(worker'[w].raw[1].best_bid_price)]_vars


-----------------------------------------------------------------------------
(* get_subscription_map one step at a time, beside an adapter worker in      *)
(* ingest_ticker (manager.py:63-115, 182-198)                                *)

\* everything but the planner's position, the mutex and what PlanBody writes
hold_rest == << market_config, cfg_obj, adapters, tickers, tk_obj, index_prices,
                instruments_by_tab, inst_obj, instrument_sets, ctor, worker,
                reader, snaps, methods, exact_map, rest_chain, rest_price,
                rest_fail, arrived, trip, expiries, deribit_vars,
                bloomberg_vars, notified, forwarded >>

\* lines 63-73: the call looks up the tab's config and adapter and asks for
\* the reference tickers; without a config or an adapter it returns {} here,
\* never reaching the mutex
PlanCall(tab) ==
    /\ Constructed
    /\ planner.pc = "idle"
    /\ LET hits == { i \in DOMAIN market_config : Configs[i].tab_name = tab }
           first == CHOOSE i \in hits : \A j \in hits : i <= j
       IN  IF hits = {} \/ SourceOf(Configs[first]) \notin adapters
           THEN /\ PlanBody(tab, {<<"20DEC24">>}, -5, 5)
                /\ UNCHANGED planner
           ELSE /\ planner' = [pc |-> "called", tab |-> tab]
                /\ UNCHANGED << plan, wire, b_active >>
    /\ UNCHANGED << hold_rest, lock >>

\* line 75: with self._lock
PlanAcquire ==
    /\ planner.pc = "called"
    /\ CanAcquire("p")
    /\ lock' = "p"
    /\ planner' = [planner EXCEPT !.pc = "locked"]
    /\ UNCHANGED << hold_rest, plan, wire, b_active >>

\* lines 76-113 up to the adapter's send: the structure is built and, when the
\* adapter is connected, adapter.subscribe hands the request to the transport
\* (ws.send, deribit.py:124; session.subscribe, bloomberg.py:204)
PlanRun ==
    /\ planner.pc = "locked"
    /\ PlanBody(planner.tab, {<<"20DEC24">>}, -5, 5)
    /\ planner' = [planner EXCEPT !.pc = IF wire' # <<>> THEN "sending" ELSE "leaving"]
    /\ UNCHANGED << hold_rest, lock >>

\* the transport's send returns, and adapter.subscribe with it
PlanSent ==
    /\ planner.pc = "sending"
    /\ planner' = [planner EXCEPT !.pc = "leaving"]
    /\ UNCHANGED << hold_rest, lock, plan, wire, b_active >>

\* line 115 (or lines 82, 99 leaving the with block): the mutex is released
PlanRelease ==
    /\ planner.pc = "leaving"
    /\ lock' = "free"
    /\ planner' = [planner EXCEPT !.pc = "idle"]
    /\ UNCHANGED << hold_rest, plan, wire, b_active >>

NextHold ==
    \/ Constructor
    \/ Sessions
    \/ \E tab \in {"BTC-USD", "US", "BIN", "XRP"} : PlanCall(tab)
    \/ PlanAcquire
    \/ PlanRun
    \/ PlanSent
    \/ PlanRelease
    \/ Ingest("w1", RawOne)

SpecHold == InitFeed /\ [][NextHold]_vars

\* C25: no thread is inside a transport send while it holds the manager
\* mutex: while adapter.subscribe's send is in progress for a
\* get_subscription_map call, that call does not hold the mutex, so a worker
\* that has entered ingest_ticker is not kept waiting by the send.
C25_NoSendUnderMutex ==
    planner.pc = "sending" => lock # "p"


-----------------------------------------------------------------------------
(* active_subscriptions and the requests the session accepted *)

\* C26: a vendor name enters active_subscriptions only in a step in which a
\* subscription request containing it is accepted by the session; the names
\* of a batch whose session.subscribe failed are not added.
C26_ActiveOnlyIfAccepted ==
    [][(b_active' \ b_active) \subseteq
          UNION { Range(wire'[k].channels) :
                    k \in { j \in DOMAIN wire' : wire'[j].adapter = "bloomberg" } }]_vars

=============================================================================
